---- MODULE Spec2Model ----
(***************************************************************************)
(* Model of the /api/analyze handler of src/api/index.py (analyze_route):  *)
(* request validation, the poll mode (row fetch, row location, cell        *)
(* extraction, facility clean-up) and the submit mode (row insertion and   *)
(* row_id extraction), run against a remote generative table whose derived *)
(* columns are filled asynchronously.                                      *)
(*                                                                         *)
(* Python values are tagged records: None, str (a sequence of one-letter   *)
(* strings), dict and object (a function from key/attribute names to       *)
(* values) and list (a sequence of values).                                *)
(***************************************************************************)
EXTENDS Integers, Sequences, FiniteSets, TLC

VARIABLES table, req, resp, remote, calls

vars == <<table, req, resp, remote, calls>>

\* Number of rows the remote table can hold in the model.
MaxRows == 1

-----------------------------------------------------------------------------
\* Python values

NoneV == [t |-> "none"]
Str(s) == [t |-> "str", s |-> s]
Dict(f) == [t |-> "dict", f |-> f]
Obj(f) == [t |-> "obj", f |-> f]
List(q) == [t |-> "list", q |-> q]

\* Python truthiness (the `if x:` / `not x` tests of the handler).
Truthy(v) ==
    CASE v.t = "none" -> FALSE
      [] v.t = "str"  -> v.s # << >>
      [] v.t = "dict" -> DOMAIN v.f # {}
      [] v.t = "list" -> v.q # << >>
      [] OTHER        -> TRUE

\* dict.get(key) with default None.
DictGet(v, key) == IF key \in DOMAIN v.f THEN v.f[key] ELSE NoneV

\* getattr(v, key, None): only objects carry the attributes the handler asks for.
GetAttr(v, key) == IF v.t = "obj" /\ key \in DOMAIN v.f THEN v.f[key] ELSE NoneV

-----------------------------------------------------------------------------
\* Strings

UpperLetters == <<"A", "B", "C", "D", "E", "F", "G", "H", "I", "J", "K", "L", "M",
                  "N", "O", "P", "Q", "R", "S", "T", "U", "V", "W", "X", "Y", "Z">>
LowerLetters == <<"a", "b", "c", "d", "e", "f", "g", "h", "i", "j", "k", "l", "m",
                  "n", "o", "p", "q", "r", "s", "t", "u", "v", "w", "x", "y", "z">>

LowerChar(c) ==
    IF \E i \in 1..26 : UpperLetters[i] = c
    THEN LowerLetters[CHOOSE i \in 1..26 : UpperLetters[i] = c]
    ELSE c

UpperChar(c) ==
    IF \E i \in 1..26 : LowerLetters[i] = c
    THEN UpperLetters[CHOOSE i \in 1..26 : LowerLetters[i] = c]
    ELSE c

\* str.lower() and str.upper()
Lower(s) == [i \in 1..Len(s) |-> LowerChar(s[i])]
Upper(s) == [i \in 1..Len(s) |-> UpperChar(s[i])]

\* str.startswith
StartsWith(s, p) == Len(p) =< Len(s) /\ SubSeq(s, 1, Len(p)) = p

\* Positions at which sub occurs in s.
Occurrences(sub, s) ==
    {i \in 1..(Len(s) - Len(sub) + 1) : SubSeq(s, i, i + Len(sub) - 1) = sub}

\* str.find: first position of sub in s, 0 when absent.
Find(sub, s) ==
    IF Occurrences(sub, s) = {} THEN 0
    ELSE CHOOSE i \in Occurrences(sub, s) : \A j \in Occurrences(sub, s) : i =< j

\* `sub in s`
Contains(sub, s) == Occurrences(sub, s) # {}

\* str.strip(chars): drop leading and trailing characters that are in chars.
InChars(c, chars) == \E i \in 1..Len(chars) : chars[i] = c

Strip(s, chars) ==
    LET keep == {i \in 1..Len(s) : ~InChars(s[i], chars)}
    IN  IF keep = {} THEN << >>
        ELSE LET lo == CHOOSE i \in keep : \A j \in keep : i =< j
                 hi == CHOOSE i \in keep : \A j \in keep : j =< i
             IN  SubSeq(s, lo, hi)

-----------------------------------------------------------------------------
\* Texts

PrefixBestMatchIs == <<"T", "h", "e", " ", "b", "e", "s", "t", " ", "m", "a", "t", "c", "h", " ", "i", "s">>
PrefixBestPpsIs == <<"T", "h", "e", " ", "b", "e", "s", "t", " ", "P", "P", "S", " ", "i", "s">>
PrefixSelectedPps == <<"S", "e", "l", "e", "c", "t", "e", "d", " ", "P", "P", "S", ":">>
PrefixBestOption == <<"B", "e", "s", "t", " ", "O", "p", "t", "i", "o", "n", ":">>

\* prefixes, in the order the clean-up loop visits them
prefixes == <<PrefixBestMatchIs, PrefixBestPpsIs, PrefixSelectedPps, PrefixBestOption>>

\* the characters clean_pps.strip(" .*:_") removes
PunctChars == <<" ", ".", "*", ":", "_">>

\* the characters str.strip() removes
Whitespace == <<" ", "\n", "\t">>

MarkerPrefix == <<"B", "E", "S", "T", " ", "M", "A", "T", "C", "H", ":">>

\* Sample cell texts the remote model writes into derived columns.
TxtKolej == <<"P", "P", "S", " ", "S", "o", "u", "t", "h", " ", "(", "K", "o", "l", "e", "j", ")">>
TxtHallA == <<"H", "a", "l", "l", " ", "A">>
TxtDot == <<".">>
TxtSelectedHallA == <<"s", "e", "l", "e", "c", "t", "e", "d", " ", "p", "p", "s", ":", " ", "*", "*", "H", "a", "l", "l", " ", "A", "*", "*", ".">>
TxtAnalysisKolej == <<"R", "a", "m", "p", " ", "o", "k", ".", "\n", "B", "E", "S", "T", " ", "M", "A", "T", "C", "H", ":", " ", "P", "P", "S", " ", "S", "o", "u", "t", "h", " ", "(", "K", "o", "l", "e", "j", ")">>
TxtAnalysisNoMarker == <<"N", "o", " ", "s", "h", "e", "l", "t", "e", "r", " ", "f", "i", "t", "s", ".">>
TxtTags == <<"c", "a", "t">>
TxtHelp == <<"h", "e", "l", "p">>

AnalysisTexts == {TxtAnalysisKolej, TxtAnalysisNoMarker}
PpsTexts == {TxtKolej, TxtSelectedHallA, TxtDot}
TagsTexts == {TxtTags}

\* Error texts (str(e) and the fixed messages of the handler), kept symbolic.
ErrRequired == <<"r", "e", "q", "u", "i", "r", "e", "d">>
ErrNoRowId == <<"n", "o", " ", "R", "o", "w", " ", "I", "D">>
ErrFetch == <<"f", "e", "t", "c", "h">>
ErrAttribute == <<"a", "t", "t", "r">>
ErrAdd == <<"a", "d", "d">>
ErrUnprocessable == <<"4", "2", "2">>

-----------------------------------------------------------------------------
\* Facility clean-up of the poll mode

\* re.split(prefix, s, flags=re.IGNORECASE)[1]: the text between the first
\* match of prefix and the next one (or the end).
SplitSecond(prefix, s) ==
    LET lp   == Lower(prefix)
        i    == Find(lp, Lower(s))
        rest == SubSeq(s, i + Len(prefix), Len(s))
        j    == Find(lp, Lower(rest))
    IN  IF j = 0 THEN rest ELSE SubSeq(rest, 1, j - 1)

\* One iteration of `for prefix in prefixes`.
StripPrefix(prefix, s) ==
    IF Contains(Lower(prefix), Lower(s)) THEN SplitSecond(prefix, s) ELSE s

RECURSIVE StripPrefixes(_, _)
StripPrefixes(k, s) ==
    IF k > Len(prefixes) THEN s
    ELSE StripPrefixes(k + 1, StripPrefix(prefixes[k], s))

\* Mutant of CleanPps: the closing strip of punctuation/markdown is missing.
CleanPps_PrefixOnly(s) == StripPrefixes(1, s)

\* clean_pps: prefixes removed in order, then punctuation/markdown stripped.
CleanPps(s) == Strip(StripPrefixes(1, s), PunctChars)

\* CleanPps of the sample texts, computed once.
CleanPpsMemo == [s \in PpsTexts |-> CleanPps(s)]

\* clean_pps of the handler: CleanPps, looked up for the sample texts.
clean_pps(s) == IF s \in DOMAIN CleanPpsMemo THEN CleanPpsMemo[s] ELSE CleanPps(s)

-----------------------------------------------------------------------------
\* Decision marker line ("BEST MATCH: <name>") of the analysis text

\* str.split('\n')
RECURSIVE SplitLines(_)
SplitLines(s) ==
    LET i == Find(<<"\n">>, s)
    IN  IF i = 0 THEN <<s>>
        ELSE <<SubSeq(s, 1, i - 1)>> \o SplitLines(SubSeq(s, i + 1, Len(s)))

\* str.replace(sub, "")
RECURSIVE RemoveAll(_, _)
RemoveAll(s, sub) ==
    LET i == Find(sub, s)
    IN  IF i = 0 THEN s
        ELSE SubSeq(s, 1, i - 1) \o RemoveAll(SubSeq(s, i + Len(sub), Len(s)), sub)

\* [line.strip() for line in text.split('\n')
\*    if line.strip().upper().startswith("BEST MATCH:")]
MarkerLines(text) ==
    LET stripped == [i \in 1..Len(SplitLines(text)) |-> Strip(SplitLines(text)[i], Whitespace)]
    IN  SelectSeq(stripped, LAMBDA l : StartsWith(Upper(l), MarkerPrefix))

HasMarkerLine(text) == MarkerLines(text) # << >>

\* Mutant of BestMatch: the first marker line is taken (`[...][0]`).
BestMatch_FirstLine(text) ==
    Strip(RemoveAll(MarkerLines(text)[1], MarkerPrefix), Whitespace)

\* last_line.replace("BEST MATCH:", "").strip() of the last marker line
BestMatch(text) ==
    Strip(RemoveAll(MarkerLines(text)[Len(MarkerLines(text))], MarkerPrefix), Whitespace)

-----------------------------------------------------------------------------
\* Poll mode of analyze_route (MODE 2)

\* Mutant of LocateRow: a top-level row_id is tested before the nested row.
LocateRow_IdFirst(row_response) ==
    IF row_response.t = "dict"
    THEN IF "row_id" \in DOMAIN row_response.f THEN row_response
         ELSE IF "row" \in DOMAIN row_response.f THEN row_response.f["row"]
         ELSE NoneV
    ELSE IF Truthy(GetAttr(row_response, "row_id"))
         THEN row_response
         ELSE GetAttr(row_response, "row")

\* Mutant of LocateRow: the dict branch lacks the `elif "row_id"` fallback.
LocateRow_NoIdFallback(row_response) ==
    IF row_response.t = "dict"
    THEN IF "row" \in DOMAIN row_response.f THEN row_response.f["row"]
         ELSE NoneV
    ELSE IF ~Truthy(GetAttr(row_response, "row")) /\ Truthy(GetAttr(row_response, "row_id"))
         THEN row_response
         ELSE GetAttr(row_response, "row")

\* Step 2 of the poll: locate the row inside the fetched response.
\* Case A (dict): the nested "row" field is looked at first, then a
\* top-level "row_id".  Case B (anything else): the .row attribute, and the
\* response itself when .row is falsy and .row_id is truthy.
LocateRow(row_response) ==
    IF row_response.t = "dict"
    THEN IF "row" \in DOMAIN row_response.f THEN row_response.f["row"]
         ELSE IF "row_id" \in DOMAIN row_response.f THEN row_response
         ELSE NoneV
    ELSE IF ~Truthy(GetAttr(row_response, "row")) /\ Truthy(GetAttr(row_response, "row_id"))
         THEN row_response
         ELSE GetAttr(row_response, "row")

\* Step 3 of the poll: the value inside the cell of column key.
get_cell_val(data_row, key) ==
    LET cell == IF data_row.t = "dict" THEN DictGet(data_row, key)
                ELSE GetAttr(data_row, key)
    IN  IF ~Truthy(cell) THEN NoneV
        ELSE IF cell.t = "dict" THEN DictGet(cell, "value")
        ELSE GetAttr(cell, "value")

\* Mutant of PollError: the exception is surfaced as a hard failure, the way
\* the outer handler does.
PollError_Hard(row_id, err) == [http |-> 500, body |-> [error |-> Str(err)]]

\* The reply of the inner `except Exception` of the poll.
PollError(row_id, err) ==
    [http |-> 200,
     body |-> [success |-> FALSE, status |-> "pending",
               error_details |-> Str(err), row_id |-> row_id]]

\* Mutant of PollExtract: completion is decided on the analysis text alone.
PollExtract_AnalysisOnly(row_id, row_data) ==
    LET analysis_text == get_cell_val(row_data, "route_analysis")
        pps_text      == get_cell_val(row_data, "selected_pps")
        tags_text     == get_cell_val(row_data, "decoded_tags")
    IN  IF Truthy(analysis_text)
        THEN [http |-> 200,
              body |-> [success |-> TRUE, status |-> "complete",
                        analysis |-> analysis_text,
                        tags |-> IF Truthy(tags_text) THEN tags_text ELSE Str(<< >>),
                        selected_pps |-> IF pps_text.t = "str"
                                         THEN Str(clean_pps(pps_text.s)) ELSE Str(<< >>)]]
        ELSE [http |-> 200,
              body |-> [success |-> FALSE, status |-> "pending", row_id |-> row_id]]

\* Steps 4 and 5: extract the three texts and decide completion.  The
\* clean-up calls str methods on pps_text, so a truthy non-string value
\* raises inside the try block.
PollExtract(row_id, row_data) ==
    LET analysis_text == get_cell_val(row_data, "route_analysis")
        pps_text      == get_cell_val(row_data, "selected_pps")
        tags_text     == get_cell_val(row_data, "decoded_tags")
    IN  IF Truthy(analysis_text) /\ Truthy(pps_text)
        THEN IF pps_text.t # "str" THEN PollError(row_id, ErrAttribute)
             ELSE [http |-> 200,
                   body |-> [success |-> TRUE, status |-> "complete",
                             analysis |-> analysis_text,
                             tags |-> IF Truthy(tags_text) THEN tags_text ELSE Str(<< >>),
                             selected_pps |-> Str(clean_pps(pps_text.s))]]
        ELSE [http |-> 200,
              body |-> [success |-> FALSE, status |-> "pending", row_id |-> row_id]]

\* str(e) of the exception get_table_row raised.
FetchError(fetch) == IF fetch.v.t = "str" THEN fetch.v.s ELSE ErrFetch

\* Mutant of PollResponse: the fetch is made outside the inner try block, so
\* an exception it raises reaches the outer handler.
PollResponse_FetchUncaught(row_id, fetch) ==
    IF fetch.raised THEN [http |-> 500, body |-> [error |-> Str(FetchError(fetch))]]
    ELSE IF ~Truthy(LocateRow(fetch.v))
         THEN [http |-> 200, body |-> [success |-> FALSE, status |-> "pending"]]
         ELSE PollExtract(row_id, LocateRow(fetch.v))

\* The whole poll, given what get_table_row did: fetch.raised, or the
\* response fetch.v.
PollResponse(row_id, fetch) ==
    IF fetch.raised THEN PollError(row_id, FetchError(fetch))
    ELSE IF ~Truthy(LocateRow(fetch.v))
         THEN [http |-> 200, body |-> [success |-> FALSE, status |-> "pending"]]
         ELSE PollExtract(row_id, LocateRow(fetch.v))

-----------------------------------------------------------------------------
\* Submit mode of analyze_route (MODE 1)

\* "Robust extraction of row_id from submission".  The object branch reads
\* completion.rows and completion.rows[0].row_id as attributes, which raises
\* AttributeError when the attribute is missing.
SubmitRowId(completion) ==
    IF completion.t = "dict"
    THEN LET rows == DictGet(completion, "rows")
         IN  IF ~Truthy(rows) THEN [raised |-> FALSE, v |-> NoneV]
             ELSE IF rows.t # "list" THEN [raised |-> TRUE, v |-> NoneV]
             ELSE IF rows.q[1].t = "dict"
                  THEN [raised |-> FALSE, v |-> DictGet(rows.q[1], "row_id")]
                  ELSE [raised |-> FALSE, v |-> GetAttr(rows.q[1], "row_id")]
    ELSE IF ~(completion.t = "obj" /\ "rows" \in DOMAIN completion.f)
         THEN [raised |-> TRUE, v |-> NoneV]
         ELSE LET rows == completion.f["rows"]
              IN  IF ~Truthy(rows) THEN [raised |-> FALSE, v |-> NoneV]
                  ELSE IF ~(rows.t = "list" /\ rows.q[1].t = "obj"
                            /\ "row_id" \in DOMAIN rows.q[1].f)
                       THEN [raised |-> TRUE, v |-> NoneV]
                       ELSE [raised |-> FALSE, v |-> rows.q[1].f["row_id"]]

\* The reply of the outer `except Exception`.
FatalError(err) == [http |-> 500, body |-> [error |-> Str(err)]]

\* Mutant of SubmitResponse: the `if not row_id` test is missing.
SubmitResponse_NoIdCheck(add) ==
    IF add.raised THEN FatalError(ErrAdd)
    ELSE IF SubmitRowId(add.v).raised THEN FatalError(ErrAttribute)
    ELSE [http |-> 200,
          body |-> [success |-> TRUE, status |-> "submitted",
                    row_id |-> SubmitRowId(add.v).v]]

\* The whole submit, given what add_table_rows did.
SubmitResponse(add) ==
    IF add.raised THEN FatalError(ErrAdd)
    ELSE IF SubmitRowId(add.v).raised THEN FatalError(ErrAttribute)
    ELSE IF ~Truthy(SubmitRowId(add.v).v)
         THEN [http |-> 500, body |-> [error |-> Str(ErrNoRowId)]]
         ELSE [http |-> 200,
               body |-> [success |-> TRUE, status |-> "submitted",
                         row_id |-> SubmitRowId(add.v).v]]

\* The validation at the top of the handler.
ValidationError == [http |-> 400, body |-> [error |-> Str(ErrRequired)]]

-----------------------------------------------------------------------------
\* The remote table service (external: any of these replies can come back)

Digits == <<"1", "2", "3", "4", "5", "6", "7", "8", "9">>

\* The identifier the remote gives to its n-th row.
RowIdText(n) == <<"r", Digits[n]>>

\* An identifier the remote never issued.
UnknownId == <<"z", "z">>

\* A row right after insertion: the derived columns are not populated.
NewRow(user_input) ==
    [user_input |-> user_input, decoded_tags |-> NoneV,
     route_analysis |-> NoneV, selected_pps |-> NoneV]

DerivedColumns == {"decoded_tags", "route_analysis", "selected_pps"}

CellShapes == {"dict", "obj", "bare", "deep"}
Kinds == {"dict", "obj"}
Wrappers == {"flat", "nested", "nestedId", "both", "bare"}

Make(kind, f) == IF kind = "dict" THEN Dict(f) ELSE Obj(f)

\* Wire form of one cell: a one-level {"value": v} wrapper (dict or object),
\* the bare scalar, or a two-level wrapper.
CellWire(v, cs) ==
    CASE cs = "dict" -> Dict([value |-> v])
      [] cs = "obj"  -> Obj([value |-> v])
      [] cs = "bare" -> v
      [] OTHER       -> Dict([value |-> Dict([value |-> v])])

RowWire(row, id, kind, cs, withId) ==
    LET cols == [c \in DerivedColumns |-> CellWire(row[c], cs)]
    IN  Make(kind, IF withId THEN cols @@ [row_id |-> Str(id)] ELSE cols)

\* Wire form of a get_table_row reply for an existing row.
ResponseWire(row, id, kind, cs, w) ==
    CASE w = "flat"     -> RowWire(row, id, kind, cs, TRUE)
      [] w = "nested"   -> Make(kind, [row |-> RowWire(row, id, kind, cs, FALSE)])
      [] w = "nestedId" -> Make(kind, [row |-> RowWire(row, id, kind, cs, TRUE)])
      [] w = "both"     -> Make(kind, [row_id |-> Str(id),
                                       row |-> RowWire(row, id, kind, cs, FALSE)])
      [] OTHER          -> RowWire(row, id, kind, cs, FALSE)

Raised == [raised |-> TRUE, v |-> NoneV]
\* get_table_row raising for a request the remote rejects for good (a
\* malformed row id, a 4xx other than not-found).
RaisedUnrecoverable == [raised |-> TRUE, v |-> Str(ErrUnprocessable)]
Returned(v) == [raised |-> FALSE, v |-> v]

\* The index of the table row a request's row_id names, 0 for none.
RowIndex(tbl, row_id) ==
    IF row_id.t = "str" /\ \E n \in 1..Len(tbl) : RowIdText(n) = row_id.s
    THEN CHOOSE n \in 1..Len(tbl) : RowIdText(n) = row_id.s
    ELSE 0

\* What get_table_row can do for row_id: raise (network, not found, or a
\* rejection for good), or return the row in one of the wire forms; for a
\* row that does not exist, raise or return a reply that holds no row.
FetchOutcomes(tbl, row_id) ==
    IF RowIndex(tbl, row_id) = 0
    THEN {Raised, RaisedUnrecoverable, Returned(NoneV), Returned(Dict([row |-> NoneV]))}
    ELSE {Raised, RaisedUnrecoverable} \cup
         {Returned(ResponseWire(tbl[RowIndex(tbl, row_id)], row_id.s, kind, cs, w)) :
             kind \in Kinds, cs \in CellShapes, w \in Wrappers}

\* What add_table_rows can return for the row it inserted under id: the
\* shapes the handler's row_id extraction distinguishes.
AddInserted(id) ==
    {Dict([rows |-> List(<<Dict([row_id |-> Str(id)])>>)]),
     Dict([rows |-> List(<<Obj([row_id |-> Str(id)])>>)]),
     Obj([rows |-> List(<<Obj([row_id |-> Str(id)])>>)]),
     Obj([rows |-> List(<<Dict([row_id |-> Str(id)])>>)]),
     Dict([rows |-> List(<<Dict(<< >>)>>)]),
     Dict([rows |-> List(<<Dict([row_id |-> Str(<< >>)])>>)]),
     Obj([rows |-> List(<<Obj([row_id |-> NoneV])>>)])}

\* Replies of add_table_rows that carry no row.
AddEmpty ==
    {Dict([rows |-> List(<< >>)]), Dict(<< >>), Dict([rows |-> NoneV]),
     Obj([rows |-> List(<< >>)]), Obj(<< >>), NoneV}

-----------------------------------------------------------------------------
\* Requests

UserInputs == {NoneV, Str(<< >>), Str(TxtHelp)}
RequestRowIds == {NoneV, Str(<< >>), Str(UnknownId)} \cup {Str(RowIdText(n)) : n \in 1..MaxRows}

\* request.json: data.get('user_input'), data.get('row_id')
Requests == {Dict([user_input |-> u, row_id |-> r]) : u \in UserInputs, r \in RequestRowIds}

NoData == Dict(<< >>)
NoResponse == [http |-> 0, body |-> << >>]
NoCall == [op |-> "none", raised |-> FALSE, v |-> NoneV]
NoCalls == [get |-> 0, add |-> 0]

user_input == DictGet(req.data, "user_input")
row_id_to_fetch == DictGet(req.data, "row_id")

-----------------------------------------------------------------------------
\* State machine

Init ==
    /\ table = << >>
    /\ req = [phase |-> "idle", data |-> NoData]
    /\ resp = NoResponse
    /\ remote = NoCall
    /\ calls = NoCalls

\* A POST /api/analyze arrives.
Receive(d) ==
    /\ req.phase = "idle"
    /\ req' = [phase |-> "inflight", data |-> d]
    /\ UNCHANGED <<table, resp, remote, calls>>

\* The reply is sent (`return jsonify(...)`): the request is over.
Return ==
    /\ req.phase = "done"
    /\ req' = [phase |-> "idle", data |-> NoData]
    /\ resp' = NoResponse
    /\ remote' = NoCall
    /\ calls' = NoCalls
    /\ UNCHANGED table

\* analyze_route, neither user_input nor row_id: 400, no remote call.
Reject ==
    /\ req.phase = "inflight"
    /\ ~Truthy(user_input) /\ ~Truthy(row_id_to_fetch)
    /\ resp' = ValidationError
    /\ req' = [req EXCEPT !.phase = "done"]
    /\ UNCHANGED <<table, remote, calls>>

\* Mutant of Poll: the handler looks at user_input before row_id, so a
\* request that carries both inserts a row instead of fetching one.
Poll_InputFirst ==
    /\ req.phase = "inflight"
    /\ Truthy(row_id_to_fetch)
    /\ req' = [req EXCEPT !.phase = "done"]
    /\ IF Truthy(user_input)
       THEN /\ \E add \in {Raised} \cup {Returned(c) : c \in AddEmpty} :
                  /\ remote' = [op |-> "add", raised |-> add.raised, v |-> add.v]
                  /\ resp' = SubmitResponse(add)
            /\ calls' = [calls EXCEPT !.add = @ + 1]
            /\ UNCHANGED table
       ELSE /\ \E fetch \in FetchOutcomes(table, row_id_to_fetch) :
                  /\ remote' = [op |-> "get", raised |-> fetch.raised, v |-> fetch.v]
                  /\ resp' = PollResponse(row_id_to_fetch, fetch)
            /\ calls' = [calls EXCEPT !.get = @ + 1]
            /\ UNCHANGED table

\* analyze_route, MODE 2: one get_table_row, then the reply.
Poll ==
    /\ req.phase = "inflight"
    /\ ~(~Truthy(user_input) /\ ~Truthy(row_id_to_fetch))
    /\ Truthy(row_id_to_fetch)
    /\ \E fetch \in FetchOutcomes(table, row_id_to_fetch) :
          /\ remote' = [op |-> "get", raised |-> fetch.raised, v |-> fetch.v]
          /\ resp' = PollResponse(row_id_to_fetch, fetch)
    /\ calls' = [calls EXCEPT !.get = @ + 1]
    /\ req' = [req EXCEPT !.phase = "done"]
    /\ UNCHANGED table

\* Mutant of Submit: the validation tests `user_input is None` instead of
\* `not user_input`, so an empty string reaches the insertion.
Submit_NoneOnlyValidation ==
    /\ req.phase = "inflight"
    /\ ~(user_input = NoneV /\ ~Truthy(row_id_to_fetch))
    /\ ~Truthy(row_id_to_fetch)
    /\ \E inserted \in {b \in BOOLEAN : b => Len(table) < MaxRows} :
       \E add \in IF inserted
                  THEN {Returned(c) : c \in AddInserted(RowIdText(Len(table) + 1))}
                  ELSE {Raised} \cup {Returned(c) : c \in AddEmpty} :
          /\ table' = IF inserted THEN Append(table, NewRow(user_input)) ELSE table
          /\ remote' = [op |-> "add", raised |-> add.raised, v |-> add.v]
          /\ resp' = SubmitResponse(add)
    /\ calls' = [calls EXCEPT !.add = @ + 1]
    /\ req' = [req EXCEPT !.phase = "done"]

\* Mutant of Submit: an insertion that raises or returns no row is made a
\* second time before the reply.
Submit_RetryOnce ==
    /\ req.phase = "inflight"
    /\ ~(~Truthy(user_input) /\ ~Truthy(row_id_to_fetch))
    /\ ~Truthy(row_id_to_fetch)
    /\ \E inserted \in {b \in BOOLEAN : b => Len(table) < MaxRows} :
       \E add \in IF inserted
                  THEN {Returned(c) : c \in AddInserted(RowIdText(Len(table) + 1))}
                  ELSE {Raised} \cup {Returned(c) : c \in AddEmpty} :
          /\ table' = IF inserted THEN Append(table, NewRow(user_input)) ELSE table
          /\ remote' = [op |-> "add", raised |-> add.raised, v |-> add.v]
          /\ resp' = SubmitResponse(add)
          /\ calls' = [calls EXCEPT !.add = IF inserted THEN @ + 1 ELSE @ + 2]
    /\ req' = [req EXCEPT !.phase = "done"]

\* analyze_route, MODE 1: one add_table_rows, then the reply.  The remote
\* inserts the row when it has room and answers with a row; it raises or
\* answers without a row otherwise.
Submit ==
    /\ req.phase = "inflight"
    /\ ~(~Truthy(user_input) /\ ~Truthy(row_id_to_fetch))
    /\ ~Truthy(row_id_to_fetch)
    /\ \E inserted \in {b \in BOOLEAN : b => Len(table) < MaxRows} :
       \E add \in IF inserted
                  THEN {Returned(c) : c \in AddInserted(RowIdText(Len(table) + 1))}
                  ELSE {Raised} \cup {Returned(c) : c \in AddEmpty} :
          /\ table' = IF inserted THEN Append(table, NewRow(user_input)) ELSE table
          /\ remote' = [op |-> "add", raised |-> add.raised, v |-> add.v]
          /\ resp' = SubmitResponse(add)
    /\ calls' = [calls EXCEPT !.add = @ + 1]
    /\ req' = [req EXCEPT !.phase = "done"]

\* The remote populates a derived column of row n (decoded_tags before
\* route_analysis: the route prompt depends on the decoded tags).
RemoteFill(n, col, text) ==
    /\ n \in 1..Len(table)
    /\ table[n][col] = NoneV
    /\ col = "route_analysis" => table[n]["decoded_tags"] # NoneV
    /\ table' = [table EXCEPT ![n][col] = Str(text)]
    /\ UNCHANGED <<req, resp, remote, calls>>

ColumnTexts(col) ==
    CASE col = "decoded_tags"   -> TagsTexts
      [] col = "route_analysis" -> AnalysisTexts
      [] OTHER                  -> PpsTexts

Next ==
    \/ \E d \in Requests : Receive(d)
    \/ Reject
    \/ Poll
    \/ Submit
    \/ Return
    \/ \E n \in 1..MaxRows, col \in DerivedColumns :
          \E text \in ColumnTexts(col) : RemoteFill(n, col, text)

Spec == Init /\ [][Next]_vars

-----------------------------------------------------------------------------
\* Observations on the last handled request

Handled == req.phase = "done"
Polled == Handled /\ remote.op = "get"
Submitted == Handled /\ remote.op = "add"

Status == IF "status" \in DOMAIN resp.body THEN resp.body.status ELSE "none"

\* A field of the reply body, None when the body has no such field.
BodyField(key) == IF key \in DOMAIN resp.body THEN resp.body[key] ELSE NoneV

-----------------------------------------------------------------------------
\* C1: every poll reply with status "complete" carries a non-empty analysis
\* text and a non-empty selected facility (also after the facility text has
\* been cleaned); a reply with either one empty is "pending".
C1_CompleteHasBoth ==
    (Polled /\ Status = "complete")
        => Truthy(BodyField("analysis")) /\ Truthy(BodyField("selected_pps"))

\* C2: a poll never ends in a non-200 reply; when the fetch raised or no row
\* could be located in the response, the reply is 200 with status "pending".
C2_PollNeverFails ==
    Polled =>
        /\ resp.http = 200
        /\ Status \in {"pending", "complete"}
        /\ (remote.raised \/ ~Truthy(LocateRow(remote.v))) => Status = "pending"

\* C2 witness: a poll for a row_id the remote never issued, whose fetch raised.
C2_Witness ==
    /\ Polled
    /\ row_id_to_fetch = Str(UnknownId)
    /\ remote.raised
    /\ resp.http = 200 /\ Status = "pending"

\* C3: a request with empty or missing user_input and no row_id gets a 400
\* and makes no call to the remote table service.
C3_EmptyRejected ==
    (Handled /\ ~Truthy(user_input) /\ ~Truthy(row_id_to_fetch))
        => /\ resp.http = 400
           /\ calls.get = 0 /\ calls.add = 0
           /\ remote.op = "none"

\* C3 witness: an empty user_input without row_id was answered.
C3_Witness ==
    /\ Handled
    /\ user_input = Str(<< >>) /\ row_id_to_fetch = NoneV
    /\ resp.http = 400

\* C4: a submit answers success with a non-empty row_id or a failure, never
\* success with an empty or missing row_id.
C4_SubmitIdOrFailure ==
    Submitted =>
        \/ /\ resp.http = 200 /\ Status = "submitted"
           /\ Truthy(BodyField("row_id"))
        \/ /\ resp.http = 500 /\ Status = "none"
           /\ "error" \in DOMAIN resp.body
           /\ "row_id" \notin DOMAIN resp.body

\* C4 witness: the remote answered the insertion with a row whose row_id is
\* empty, and the submit failed.
C4_Witness ==
    /\ Submitted
    /\ Truthy(user_input)
    /\ ~remote.raised
    /\ remote.v = Dict([rows |-> List(<<Dict([row_id |-> Str(<< >>)])>>)])
    /\ resp.http = 500

-----------------------------------------------------------------------------
\* The last poll: the located row and what the wire holds in its cells

\* row_data of the last poll
row_data == LocateRow(remote.v)

\* The last request was a poll whose fetch returned and whose row was located.
FetchedRow == Polled /\ ~remote.raised /\ Truthy(row_data)

\* The cell of column key as it lies in the located row.
WireCell(key) ==
    IF row_data.t = "dict" THEN DictGet(row_data, key) ELSE GetAttr(row_data, key)

\* The cell is a one-level {"value": text} wrapper holding a non-empty text.
WrappedText(cell) ==
    /\ cell.t \in {"dict", "obj"}
    /\ "value" \in DOMAIN cell.f
    /\ cell.f["value"].t = "str"
    /\ cell.f["value"].s # << >>

\* Both derived columns of remote row n are populated.
Populated(n) ==
    /\ n \in 1..Len(table)
    /\ table[n]["route_analysis"] # NoneV
    /\ table[n]["selected_pps"] # NoneV

-----------------------------------------------------------------------------
\* C6: for every fetched row whose two derived cells are present and
\* non-empty, the poll reply is complete and both the returned analysis text
\* and the returned selected facility are non-empty.
C6_BothPresentComplete ==
    (FetchedRow /\ WrappedText(WireCell("route_analysis"))
                /\ WrappedText(WireCell("selected_pps")))
        => /\ Status = "complete"
           /\ Truthy(BodyField("analysis"))
           /\ Truthy(BodyField("selected_pps"))

\* The selected_pps cell of the fetched row holds a text that is still
\* non-empty after the clean-up (a facility name).
NamedFacility ==
    /\ WrappedText(WireCell("selected_pps"))
    /\ CleanPps(WireCell("selected_pps").f["value"].s) # << >>

C8_BareEqualsWrapped ==
    \A n \in 1..Len(table), col \in DerivedColumns :
        LET bare    == RowWire(table[n], RowIdText(n), "dict", "bare", TRUE)
            wrapped == RowWire(table[n], RowIdText(n), "dict", "dict", TRUE)
        IN  /\ get_cell_val(bare, col) = get_cell_val(wrapped, col)
            /\ PollResponse(Str(RowIdText(n)), Returned(bare)).body.status
                 = PollResponse(Str(RowIdText(n)), Returned(wrapped)).body.status

\* C9 (as claimed): for a response that has both a top-level row_id and a
\* nested "row" field, the row used is the response itself.
C9_TopLevelIdFirst ==
    (Polled /\ ~remote.raised /\ remote.v.t \in {"dict", "obj"}
            /\ {"row", "row_id"} \subseteq DOMAIN remote.v.f)
        => row_data = remote.v

\* C9 (amended): the nested "row" field has priority.  For a response that
\* has both a top-level row_id and a non-empty nested "row" field, the row
\* used is the nested row and the reply is the one extracted from it.
C9_NestedRowFirst ==
    (Polled /\ ~remote.raised /\ remote.v.t \in {"dict", "obj"}
            /\ {"row", "row_id"} \subseteq DOMAIN remote.v.f
            /\ Truthy(remote.v.f["row"]))
        => /\ row_data = remote.v.f["row"]
           /\ resp = PollExtract(row_id_to_fetch, remote.v.f["row"])

\* C9 witness: a dict response with both fields whose nested row is
\* populated; the reply is complete, taken from the nested row.
C9_Witness ==
    /\ Polled /\ ~remote.raised
    /\ remote.v.t = "dict"
    /\ {"row", "row_id"} \subseteq DOMAIN remote.v.f
    /\ row_data = remote.v.f["row"]
    /\ Status = "complete"

\* C10 (as claimed): locating the row in an already located row yields the
\* same row again.
C10_LocateIdempotent ==
    (Polled /\ ~remote.raised /\ Truthy(row_data))
        => LocateRow(row_data) = row_data

\* The row carries a row_id of its own (a key of a dict, a truthy attribute
\* of an object) and no nested "row" field.
HasOwnId(r) ==
    /\ r.t \in {"dict", "obj"}
    /\ "row" \notin DOMAIN r.f
    /\ r.t = "dict" => "row_id" \in DOMAIN r.f
    /\ r.t = "obj" => Truthy(GetAttr(r, "row_id"))

\* The row has neither a row_id of its own nor a nested "row" field.
HasNoIdNoRow(r) ==
    \/ r.t \notin {"dict", "obj"}
    \/ /\ "row" \notin DOMAIN r.f
       /\ r.t = "dict" => "row_id" \notin DOMAIN r.f
       /\ r.t = "obj" => ~Truthy(GetAttr(r, "row_id"))

\* C10 (amended): locating is idempotent on located rows that carry a row_id
\* of their own and no nested "row" field; a row unwrapped from a nested
\* "row" field that has neither a row_id nor a "row" field of its own is
\* reported as 'no row data' when the step is applied again.
C10_IdempotentWithOwnId ==
    /\ (Polled /\ ~remote.raised /\ Truthy(row_data) /\ HasOwnId(row_data))
          => LocateRow(row_data) = row_data
    /\ (Polled /\ ~remote.raised /\ Truthy(row_data) /\ HasNoIdNoRow(row_data))
          => ~Truthy(LocateRow(row_data))

\* C10 witness: a row unwrapped from a nested "row" field that carries its
\* own row_id is located again as itself.
C10_Witness ==
    /\ Polled /\ ~remote.raised
    /\ remote.v.t = "dict" /\ "row" \in DOMAIN remote.v.f
    /\ row_data = remote.v.f["row"]
    /\ HasOwnId(row_data)
    /\ LocateRow(row_data) = row_data

-----------------------------------------------------------------------------
\* Polling until completion

\* The caller polls row n again.
PollArrives(n) ==
    \E u \in UserInputs :
        Receive(Dict([user_input |-> u, row_id |-> Str(RowIdText(n))]))

\* The remote answers the poll of row n with the row itself, its cells in
\* one-level value wrappers.
PollAnswered(n) ==
    /\ n \in 1..Len(table)
    /\ row_id_to_fetch = Str(RowIdText(n))
    /\ Poll
    /\ remote' = [op |-> "get", raised |-> FALSE,
                  v |-> ResponseWire(table[n], RowIdText(n), "dict", "dict", "flat")]

\* The handler runs to its reply and returns; the caller keeps polling every
\* row; the remote does not fail or garble the fetch for ever.
LiveSpec ==
    /\ Spec
    /\ WF_vars(Reject \/ Poll \/ Submit \/ Return)
    /\ \A n \in 1..MaxRows : SF_vars(PollArrives(n)) /\ SF_vars(PollAnswered(n))

\* The index of the row the request in flight polls, 0 for none.
PolledIndex == RowIndex(table, row_id_to_fetch)

\* The fetched row holds route_analysis.value ending in a "BEST MATCH:" line
\* and a non-empty selected_pps.value.
C5_RowReady ==
    /\ FetchedRow
    /\ WrappedText(WireCell("route_analysis"))
    /\ HasMarkerLine(WireCell("route_analysis").f["value"].s)
    /\ WrappedText(WireCell("selected_pps"))

C5_PendingStep ==
    (/\ req.phase = "inflight" /\ Truthy(row_id_to_fetch)
     /\ PolledIndex # 0 /\ ~Populated(PolledIndex)
     /\ req'.phase = "done")
        => Status' = "pending"

\* A poll of a ready row is complete, and its selected facility is the
\* selected_pps value with prefixes and surrounding punctuation removed:
\* "PPS South (Kolej)" for that text, "Hall A" for "selected pps: **Hall A**.".
C5_FacilityIsCleanedPps ==
    C5_RowReady
        => LET pps == WireCell("selected_pps").f["value"].s
           IN  /\ Status = "complete"
               /\ BodyField("selected_pps") = Str(CleanPps(pps))
               /\ pps = TxtKolej => BodyField("selected_pps") = Str(TxtKolej)
               /\ pps = TxtSelectedHallA => BodyField("selected_pps") = Str(TxtHallA)

-----------------------------------------------------------------------------
\* C17: a poll whose fetch fails for good (malformed row id, a 4xx other
\* than not-found) is answered at once with an error outcome that is not
\* "pending".
C17_UnrecoverableIsError ==
    (Polled /\ remote.raised /\ remote.v = Str(ErrUnprocessable))
        => /\ Status # "pending"
           /\ (resp.http >= 400 \/ Status \in {"error", "failed"})

\* The step that answers the request in flight.
Answering == req.phase = "inflight" /\ req'.phase = "done"

\* C18: a request that carries a row_id is answered after exactly one row
\* fetch and no row insertion, and the step that answers it leaves the
\* remote table as it is, also when the request carries a non-empty
\* user_input.
C18_PollReadOnly ==
    /\ []((Handled /\ Truthy(row_id_to_fetch))
            => (remote.op = "get" /\ calls.get = 1 /\ calls.add = 0))
    /\ [][(Answering /\ Truthy(row_id_to_fetch)) => table' = table]_vars

\* C18 witness: a request with a non-empty user_input and the row_id of a
\* row was answered after one fetch and no insertion.
C18_Witness ==
    /\ Handled
    /\ user_input = Str(TxtHelp)
    /\ row_id_to_fetch = Str(RowIdText(1))
    /\ Len(table) = 1
    /\ remote.op = "get" /\ calls.get = 1 /\ calls.add = 0

\* C19: every poll reply with status "pending" carries the row_id that was
\* polled.
C19_PendingCarriesRowId ==
    (Polled /\ Status = "pending") => BodyField("row_id") = row_id_to_fetch

\* The insertion of the submit raised, or its answer held no row id.
InsertionFailed ==
    /\ Submitted
    /\ \/ remote.raised
       \/ SubmitRowId(remote.v).raised
       \/ ~Truthy(SubmitRowId(remote.v).v)

\* C23: a submit request is answered after at most one add_table_rows call
\* and adds at most one row; when the insertion raises or returns no row id
\* the reply is a failure (500) after that one call, without a second one;
\* a request that fails the validation is answered without any call.
C23_AtMostOneInsertion ==
    /\ [](Handled => calls.add <= 1)
    /\ [](Submitted => (calls.add = 1 /\ calls.get = 0))
    /\ [](InsertionFailed => (resp.http = 500 /\ calls.add = 1))
    /\ []((Handled /\ resp = ValidationError) => (calls = NoCalls /\ remote = NoCall))
    /\ [][Answering => /\ Len(table') <= Len(table) + 1
                       /\ resp' = ValidationError => table' = table]_vars

\* C23 witness: a submit whose insertion raised was answered 500 after one
\* add_table_rows call.
C23_Witness ==
    /\ Submitted
    /\ remote.raised
    /\ resp.http = 500
    /\ calls.add = 1

-----------------------------------------------------------------------------
(***************************************************************************)
(* Extraction of the facility name from an analysis text, as the three     *)
(* places of the repository do it: the create handler of /api/jamai        *)
(* (last marker line, str.replace), route_optimal_pps of the workflow       *)
(* scripts (last marker line, str.split(':', 1)) and the clean-up of the   *)
(* poll mode of /api/analyze.  In ExtractSpec, req.data holds the text and *)
(* resp the outcome of the extraction that ran on it.                      *)
(***************************************************************************)

TxtDewan == <<"D", "e", "w", "a", "n", " ", "S", "e", "r", "b", "a", "g", "u", "n", "a">>
TxtRampOk == <<"R", "a", "m", "p", " ", "o", "k", ".", "\n">>
TxtEarlierMatch == <<"B", "E", "S", "T", " ", "M", "A", "T", "C", "H", ":", " ", "S", "K", " ", "G", "o", "m", "b", "a", "k", "\n">>
MarkerLower == <<"b", "e", "s", "t", " ", "m", "a", "t", "c", "h", ":">>
MarkerTitle == <<"B", "e", "s", "t", " ", "M", "a", "t", "c", "h", ":">>

\* Analysis texts the LLM can answer with: an optional preamble, then a
\* marker line in some letter case, with or without indentation and a
\* trailing period; and texts without a marker line.
ExtractTexts ==
    {pre \o ind \o marker \o <<" ">> \o name \o suffix :
        pre \in {<< >>, TxtRampOk, TxtEarlierMatch},
        ind \in {<< >>, <<" ", " ">>},
        marker \in {MarkerPrefix, MarkerLower, MarkerTitle},
        name \in {TxtHallA, TxtDewan},
        suffix \in {<< >>, <<".">>}}
    \cup {<< >>, TxtAnalysisNoMarker}

\* str.splitlines(): like split('\n'), without the empty piece after a
\* final line break.
Splitlines(s) ==
    LET l == SplitLines(s)
    IN  IF l[Len(l)] = << >> THEN SubSeq(l, 1, Len(l) - 1) ELSE l

\* line.split(':', 1)[1]: what follows the first colon of the line.
AfterFirstColon(line) == SubSeq(line, Find(<<":">>, line) + 1, Len(line))

\* The lines of full_text that pass
\* `line.strip().upper().startswith('BEST MATCH:')`, in text order.
MatchingLines(full_text) ==
    SelectSeq(Splitlines(full_text),
              LAMBDA l : StartsWith(Upper(Strip(l, Whitespace)), MarkerPrefix))

\* Mutant of ParseBestMatch: the lines are searched in text order, so the
\* first matching line decides.
ParseBestMatch_FirstLine(full_text) ==
    IF MatchingLines(full_text) = << >> THEN NoneV
    ELSE Str(Strip(AfterFirstColon(MatchingLines(full_text)[1]), Whitespace))

\* route_optimal_pps, "Try to parse BEST MATCH line": the reversed lines are
\* searched, so the last matching line decides; None without one.
ParseBestMatch(full_text) ==
    IF MatchingLines(full_text) = << >> THEN NoneV
    ELSE Str(Strip(AfterFirstColon(MatchingLines(full_text)[Len(MatchingLines(full_text))]),
                   Whitespace))

\* _create_routing_entry, "Extract Route Analysis and Best Match": nothing
\* for an empty text; `[...][-1]` raises IndexError on a text without a
\* marker line.
CreateBestMatch(analysis_text) ==
    IF analysis_text = << >> THEN [raised |-> FALSE, best |-> Str(<< >>)]
    ELSE IF ~HasMarkerLine(analysis_text) THEN [raised |-> TRUE, best |-> NoneV]
    ELSE [raised |-> FALSE, best |-> Str(BestMatch(analysis_text))]

ExtractInit ==
    /\ table = << >>
    /\ \E text \in ExtractTexts : req = [phase |-> "inflight", data |-> Str(text)]
    /\ resp = NoResponse
    /\ remote = NoCall
    /\ calls = NoCalls

\* The create handler extracts best_match from the text.
ExtractCreate ==
    /\ req.phase = "inflight"
    /\ resp' = [http |-> 0,
                body |-> [by |-> "create",
                          raised |-> CreateBestMatch(req.data.s).raised,
                          selected_pps |-> CreateBestMatch(req.data.s).best]]
    /\ req' = [req EXCEPT !.phase = "done"]
    /\ UNCHANGED <<table, remote, calls>>

\* route_optimal_pps extracts best from the text.
ExtractRoute ==
    /\ req.phase = "inflight"
    /\ resp' = [http |-> 0,
                body |-> [by |-> "route", raised |-> FALSE,
                          selected_pps |-> ParseBestMatch(req.data.s)]]
    /\ req' = [req EXCEPT !.phase = "done"]
    /\ UNCHANGED <<table, remote, calls>>

\* The poll mode cleans the text as the value of a selected_pps cell
\* (`if analysis_text and pps_text` lets only a non-empty text through).
ExtractClean ==
    /\ req.phase = "inflight"
    /\ req.data.s # << >>
    /\ resp' = [http |-> 0,
                body |-> [by |-> "clean", raised |-> FALSE,
                          selected_pps |-> Str(CleanPps(req.data.s))]]
    /\ req' = [req EXCEPT !.phase = "done"]
    /\ UNCHANGED <<table, remote, calls>>

ExtractNext == ExtractCreate \/ ExtractRoute \/ ExtractClean

ExtractSpec == ExtractInit /\ [][ExtractNext]_vars

\* An extraction ran and produced a non-empty facility name.
Extracted ==
    /\ req.phase = "done"
    /\ "by" \in DOMAIN resp.body
    /\ ~resp.body.raised
    /\ Truthy(resp.body.selected_pps)

\* The marker of the last marker line of text is written in upper case.
UpperCaseMarker(text) ==
    HasMarkerLine(text)
        /\ StartsWith(MarkerLines(text)[Len(MarkerLines(text))], MarkerPrefix)

\* C11: the extracted facility name never ends with a period; from the
\* marker line "BEST MATCH: Dewan Serbaguna." the facility "Dewan Serbaguna"
\* is extracted.  Stated for the texts whose marker is written in upper
\* case, where the letter case of the marker plays no part.
C11_NoTrailingPeriod ==
    (Extracted /\ UpperCaseMarker(req.data.s)) =>
        /\ resp.body.selected_pps.s[Len(resp.body.selected_pps.s)] # "."
        /\ (req.data.s = MarkerPrefix \o <<" ">> \o TxtDewan \o <<".">>
            /\ resp.body.by \in {"create", "route"})
                => resp.body.selected_pps = Str(TxtDewan)

\* The remainder of the last marker line of text after the marker prefix,
\* whatever the letter case of the marker, trimmed.
MarkerRemainder(text) ==
    LET l == MarkerLines(text)[Len(MarkerLines(text))]
    IN  Strip(SubSeq(l, Len(MarkerPrefix) + 1, Len(l)), Whitespace)

\* C12: for a text with a line whose trimmed upper-cased form starts with
\* "BEST MATCH:", the facility extracted from the marker line is the
\* remainder of that line after the marker, and does not contain the marker.
C12_RemainderOfMarkerLine ==
    (Extracted /\ resp.body.by \in {"create", "route"} /\ HasMarkerLine(req.data.s))
        => /\ resp.body.selected_pps = Str(MarkerRemainder(req.data.s))
           /\ ~Contains(MarkerPrefix, Upper(resp.body.selected_pps.s))

-----------------------------------------------------------------------------
(***************************************************************************)
(* Table writes of the workflow scripts: the configuration read by         *)
(* get_config, the candidate endpoint list, and the loop that POSTs the    *)
(* payload to the candidates.  In WriteSpec, req holds the operation, its  *)
(* configuration and its candidate list, calls the POSTs made so far (url, *)
(* payload shape and the reply), remote the last reply, table the rows the *)
(* remote accepted and resp the outcome of the operation.                  *)
(***************************************************************************)

PathAddRows == <<"/", "a", "p", "i", "/", "v", "2", "/", "g", "e", "n", "_", "t", "a", "b", "l", "e", "s", "/", "a", "c", "t", "i", "o", "n", "/", "r", "o", "w", "s", "/", "a", "d", "d">>
PathGenTables == <<"/", "a", "p", "i", "/", "v", "2", "/", "g", "e", "n", "_", "t", "a", "b", "l", "e", "s", "/">>
PathRowsAdd == <<"/", "r", "o", "w", "s", "/", "a", "d", "d">>
PathProjects == <<"/", "v", "1", "/", "p", "r", "o", "j", "e", "c", "t", "s", "/">>
PathTables == <<"/", "t", "a", "b", "l", "e", "s", "/">>
PathProjectTables == <<"/", "t", "a", "b", "l", "e", "s">>
PathV1Tables == <<"/", "v", "1", "/", "t", "a", "b", "l", "e", "s", "/">>
PathRows == <<"/", "r", "o", "w", "s">>
TableName == <<"e", "m", "e", "r", "g", "e", "n", "c", "y", "_", "r", "o", "u", "t", "i", "n", "g">>

\* Sample environment values.
UrlHost == <<"h", "t", "t", "p", ":", "/", "/", "j">>
UrlHostSlash == <<"h", "t", "t", "p", ":", "/", "/", "j", "/">>
UrlSlash == <<"/">>
UrlOther == <<"h", "t", "t", "p", ":", "/", "/", "t", "/", "r", "o", "w", "s">>
TxtProject == <<"p", "1">>
TxtToken == <<"t", "o", "k">>

\* str.rstrip('/')
RStripSlash(s) ==
    LET keep == {i \in 1..Len(s) : s[i] # "/"}
    IN  IF keep = {} THEN << >>
        ELSE SubSeq(s, 1, CHOOSE i \in keep : \A j \in keep : j =< i)

\* str.endswith
EndsWith(s, p) == Len(p) =< Len(s) /\ SubSeq(s, Len(s) - Len(p) + 1, Len(s)) = p

\* build_candidate_table_urls of run_full_emergency_workflow: the Add Rows
\* endpoint always, the project-scoped ones when project_id is set.
build_candidate_table_urls_full(api_url, project_id, table_name) ==
    LET base == IF api_url # << >> THEN RStripSlash(api_url) ELSE << >>
    IN  <<base \o PathAddRows>>
        \o (IF project_id # << >>
            THEN <<base \o PathProjects \o project_id \o PathTables \o table_name \o PathRows,
                   base \o PathProjects \o project_id \o PathTables \o table_name>>
            ELSE << >>)

\* build_candidate_table_urls of scripts/emergency_routing_workflow: nothing
\* without a base, else the Add Rows endpoint, the project-scoped ones when
\* project_id is set, and the unscoped one.
build_candidate_table_urls(api_url, project_id, table_name) ==
    LET base == IF api_url # << >> THEN RStripSlash(api_url) ELSE << >>
    IN  IF base = << >> THEN << >>
        ELSE <<base \o PathAddRows>>
             \o (IF project_id # << >>
                 THEN <<base \o PathProjects \o project_id \o PathTables \o table_name \o PathRows,
                        base \o PathProjects \o project_id \o PathTables \o table_name>>
                 ELSE << >>)
             \o <<base \o PathV1Tables \o table_name \o PathRows>>

\* build_table_endpoint of scripts/upload_sop_to_jamai; << >> stands for None.
build_table_endpoint(project_id, api_url) ==
    IF api_url = << >> \/ project_id = << >> THEN << >>
    ELSE RStripSlash(api_url) \o PathProjects \o project_id \o PathProjectTables

\* The operations that write rows by walking a candidate list.
FullOps == {"upload_sop_knowledge", "log_workflow_results"}
WorkflowOps == {"post_decode_row", "post_route_row"}
WriteOps == FullOps \cup WorkflowOps \cup {"upload_sop"}

\* get_config: the environment, a missing variable read as ''.
Configs ==
    [op : WriteOps,
     pat : {<< >>, TxtToken},
     project_id : {<< >>, TxtProject},
     api_url : {<< >>, UrlSlash, UrlHost, UrlHostSlash},
     table_api_url : {<< >>, UrlOther, UrlHost \o PathAddRows}]

\* The checks of main that end the script with sys.exit(2) before any write.
ConfigExit(c) ==
    CASE c.op \in FullOps ->
            c.pat = << >> \/ c.project_id = << >> \/ c.api_url = << >>
      [] c.op \in WorkflowOps ->
            c.api_url = << >> \/ c.pat = << >>
      [] OTHER ->
            \/ (c.table_api_url = << >>
                /\ build_table_endpoint(c.project_id, c.api_url) = << >>)
            \/ c.pat = << >>

\* What build_candidate_table_urls returns to the operation (upload_sop
\* builds the same list inline).
BuiltUrls(c) ==
    IF c.op \in FullOps
    THEN build_candidate_table_urls_full(c.api_url, c.project_id, TableName)
    ELSE build_candidate_table_urls(c.api_url, c.project_id, TableName)

\* candidate_urls: the explicit table URL first when set (for upload_sop
\* the project tables endpoint in its place when not), then the built ones.
CandidateUrls(c) ==
    LET first == IF c.table_api_url # << >> THEN c.table_api_url
                 ELSE IF c.op = "upload_sop"
                      THEN build_table_endpoint(c.project_id, c.api_url)
                      ELSE << >>
    IN  (IF first # << >> THEN <<first>> ELSE << >>) \o BuiltUrls(c)

\* The payload shape posted to url: the workflow sends the Add Rows shape to
\* Add Rows endpoints and {'rows': [...]} elsewhere; the others always
\* send the Add Rows shape.
PayloadFor(op, url) ==
    IF op \in WorkflowOps
    THEN IF Contains(PathGenTables, url) \/ EndsWith(url, PathRowsAdd)
         THEN "add_rows" ELSE "legacy"
    ELSE "add_rows"

\* What a POST can come back with (try_post_table_rows, upload_via_requests):
\* no status on a network error, else the status and the kind of body
\* (a JSON object, a JSON scalar such as null, or text).
PostReplies ==
    {[none |-> TRUE, code |-> 0, body |-> "text"]}
    \cup [none : {FALSE}, code : {200, 201}, body : {"dict"}]
    \cup {[none |-> FALSE, code |-> 404, body |-> "text"],
          [none |-> FALSE, code |-> 500, body |-> "scalar"]}

\* `status and 200 <= status < 300`
Accepted(reply) == ~reply.none /\ 200 =< reply.code /\ reply.code < 300

\* The failure line of the run_full operations prints body[:100] for a body
\* that is not a dict, which raises TypeError on a JSON scalar.
PrintRaises(op, reply) ==
    op \in FullOps /\ ~reply.none /\ ~Accepted(reply) /\ reply.body = "scalar"

NoOutcome == [http |-> 0, body |-> << >>]
Outcome(result) == [http |-> 0, body |-> [result |-> result]]

WriteInit ==
    /\ table = << >>
    /\ \E c \in Configs :
          req = [phase |-> "start", data |-> c, candidates |-> << >>, built |-> << >>]
    /\ resp = NoOutcome
    /\ remote = NoCall
    /\ calls = << >>

\* main checks the configuration and the operation builds its candidate list.
Prepare ==
    /\ req.phase = "start"
    /\ IF ConfigExit(req.data)
       THEN /\ req' = [req EXCEPT !.phase = "done"]
            /\ resp' = Outcome("exit")
       ELSE /\ req' = [req EXCEPT !.phase = "walking",
                                  !.candidates = CandidateUrls(req.data),
                                  !.built = BuiltUrls(req.data)]
            /\ resp' = resp
    /\ UNCHANGED <<table, remote, calls>>

\* Mutant of Post: the loop lacks the `return True` / `break` on a 2xx.
Post_NoBreak ==
    /\ req.phase = "walking"
    /\ Len(calls) < Len(req.candidates)
    /\ \E reply \in PostReplies :
          LET url == req.candidates[Len(calls) + 1]
              payload == PayloadFor(req.data.op, url)
          IN  /\ calls' = Append(calls, [url |-> url, payload |-> payload, reply |-> reply])
              /\ remote' = [op |-> "post", raised |-> reply.none, v |-> reply]
              /\ table' = IF Accepted(reply)
                          THEN Append(table, [url |-> url, payload |-> payload])
                          ELSE table
              /\ IF PrintRaises(req.data.op, reply)
                 THEN /\ req' = [req EXCEPT !.phase = "done"]
                      /\ resp' = Outcome("raised")
                 ELSE /\ req' = req
                      /\ resp' = IF Accepted(reply) THEN Outcome("posted") ELSE resp

\* One turn of `for url in candidate_urls`: the POST to the next candidate
\* and what the loop does with the reply.
Post ==
    /\ req.phase = "walking"
    /\ Len(calls) < Len(req.candidates)
    /\ \E reply \in PostReplies :
          LET url == req.candidates[Len(calls) + 1]
              payload == PayloadFor(req.data.op, url)
          IN  /\ calls' = Append(calls, [url |-> url, payload |-> payload, reply |-> reply])
              /\ remote' = [op |-> "post", raised |-> reply.none, v |-> reply]
              /\ table' = IF Accepted(reply)
                          THEN Append(table, [url |-> url, payload |-> payload])
                          ELSE table
              /\ IF Accepted(reply)
                 THEN /\ req' = [req EXCEPT !.phase = "done"]
                      /\ resp' = Outcome("posted")
                 ELSE IF PrintRaises(req.data.op, reply)
                 THEN /\ req' = [req EXCEPT !.phase = "done"]
                      /\ resp' = Outcome("raised")
                 ELSE /\ req' = req
                      /\ resp' = resp

\* The loop ran out of candidates: the operation reports the failure
\* (`if not posted`, the `else` of the loop, the code after it).
Exhausted ==
    /\ req.phase = "walking"
    /\ Len(calls) = Len(req.candidates)
    /\ req' = [req EXCEPT !.phase = "done"]
    /\ resp' = IF resp = NoOutcome THEN Outcome("failed") ELSE resp
    /\ UNCHANGED <<table, remote, calls>>

WriteNext == Prepare \/ Post \/ Exhausted

WriteSpec == WriteInit /\ [][WriteNext]_vars

\* The operation passed the configuration checks and built its candidates.
Prepared == req.phase = "walking" \/ (req.phase = "done" /\ resp # Outcome("exit"))

\* C13: a table write POSTs to its candidates in list order, accepts the
\* first 2xx reply and contacts no candidate after it, and reports failure
\* only when every candidate was tried and none answered 2xx.
C13_FirstSuccessWins ==
    Prepared =>
        /\ Len(calls) =< Len(req.candidates)
        /\ \A i \in 1..Len(calls) : calls[i].url = req.candidates[i]
        /\ \A i \in 1..(Len(calls) - 1) : ~Accepted(calls[i].reply)
        /\ (calls # << >> /\ Accepted(calls[Len(calls)].reply))
              => (req.phase = "done" /\ resp = Outcome("posted"))
        /\ resp = Outcome("posted") => Accepted(calls[Len(calls)].reply)
        /\ resp = Outcome("failed")
              => /\ Len(calls) = Len(req.candidates)
                 /\ \A i \in 1..Len(calls) : ~Accepted(calls[i].reply)

\* C13 witness: the second of at least three candidates answered 2xx after
\* the first had failed, and the write ended there.
C13_Witness ==
    /\ req.phase = "done"
    /\ resp = Outcome("posted")
    /\ Len(calls) = 2
    /\ Len(req.candidates) >= 3
    /\ ~Accepted(calls[1].reply) /\ Accepted(calls[2].reply)

\* C14: within one table write no URL is POSTed to more than once, also
\* when the explicit table URL equals a URL derived from the API URL.
C14_EachUrlOnce ==
    Prepared =>
        \A i, j \in 1..Len(calls) : i # j => calls[i].url # calls[j].url

\* C15: build_candidate_table_urls returns the same list for the same
\* arguments, and a non-empty list whenever api_url is non-empty.
C15_DeterministicNonEmpty ==
    (Prepared /\ req.data.op \in FullOps \cup WorkflowOps)
        => /\ req.built = BuiltUrls(req.data)
           /\ req.data.api_url # << >> => req.built # << >>

\* The candidate endpoints the module docstring of
\* scripts/emergency_routing_workflow lists, in its order:
\* $JAMAI_TABLE_API_URL (if provided), then
\* $JAMAI_API_URL/v1/projects/{project_id}/tables/emergency_routing/rows and
\* $JAMAI_API_URL/v1/projects/{project_id}/tables/emergency_routing.
DocumentedUrls(c) ==
    (IF c.table_api_url # << >> THEN <<c.table_api_url>> ELSE << >>)
    \o <<c.api_url \o PathProjects \o c.project_id \o PathTables \o TableName \o PathRows,
         c.api_url \o PathProjects \o c.project_id \o PathTables \o TableName>>

\* C24: the rows emergency_routing_workflow posts go to the candidate
\* endpoints its docstring lists, in that order, and to no other URL; a
\* write that failed has tried exactly those.  Stated for a configuration
\* with a project id and an API URL without a trailing slash, where the
\* documented URLs are the ones the code derives for the project.
C24_DocumentedCandidates ==
    (/\ Prepared
     /\ req.data.op \in WorkflowOps
     /\ req.data.project_id # << >>
     /\ RStripSlash(req.data.api_url) = req.data.api_url)
        => /\ Len(calls) =< Len(DocumentedUrls(req.data))
           /\ \A i \in 1..Len(calls) : calls[i].url = DocumentedUrls(req.data)[i]
           /\ resp = Outcome("failed") => Len(calls) = Len(DocumentedUrls(req.data))

-----------------------------------------------------------------------------
(***************************************************************************)
(* The synchronous endpoints: /api/jamai/create and /api/jamai/get         *)
(* (src/api/jamai/index.py) and /api/route (src/api/route.py).  In         *)
(* EndpointSpec, req holds the environment the module was loaded with and  *)
(* the request, remote the request sent to the remote service and its      *)
(* reply, calls the number of list (get) and add-rows (add) requests sent  *)
(* for the request, table the rows of the remote table and resp the HTTP   *)
(* response.                                                               *)
(***************************************************************************)

TokStairs == <<"s", "t", "a", "i", "r", "s">>
Tok2ndFloor == <<"2", "n", "d", " ", "f", "l", "o", "o", "r">>
TokBedridden == <<"b", "e", "d", "r", "i", "d", "d", "e", "n">>
TokNoAnimals == <<"n", "o", " ", "a", "n", "i", "m", "a", "l", "s">>
TokStrictNoAnimals == <<"s", "t", "r", "i", "c", "t", " ", "n", "o", " ", "a", "n", "i", "m", "a", "l", "s">>
TokPetPolicy == <<"p", "e", "t", " ", "p", "o", "l", "i", "c", "y">>
TokOku == <<"o", "k", "u">>
TokOutdoorPetArea == <<"o", "u", "t", "d", "o", "o", "r", " ", "p", "e", "t", " ", "a", "r", "e", "a">>
TokDesignatedPet == <<"d", "e", "s", "i", "g", "n", "a", "t", "e", "d", " ", "p", "e", "t">>
TokWargaEmas == <<"w", "a", "r", "g", "a", " ", "e", "m", "a", "s">>
TokCat == <<"c", "a", "t">>
TxtGombak == <<"S", "K", " ", "G", "o", "m", "b", "a", "k">>
TxtKolejKomuniti == <<"K", "o", "l", "e", "j", " ", "K", "o", "m", "u", "n", "i", "t", "i">>
TxtBedriddenCat == <<"B", "e", "d", "r", "i", "d", "d", "e", "n", ",", " ", "c", "a", "t">>
TxtAnalysisOku == <<"O", "K", "U", " ", "t", "o", "i", "l", "e", "t", "s", ".", " ", "N", "o", " ", "a", "n", "i", "m", "a", "l", "s", ".">>

\* A request body that json.loads / get_json rejects.
Invalid == [t |-> "invalid"]
\* A JSON number.
Num == [t |-> "num"]

\* dict.get(key, default)
DictGetOr(v, key, default) == IF key \in DOMAIN v.f THEN v.f[key] ELSE default

\* JAMAI_PAT and JAMAI_PROJECT_ID as the module read them (None when unset).
Environments == [pat : {NoneV, Str(<< >>), Str(TxtToken)},
                 project_id : {NoneV, Str(TxtProject)}]

\* _get_headers: `if not JAMAI_PAT or not JAMAI_PROJECT_ID: raise`
CredentialsMissing(env) == ~Truthy(env.pat) \/ ~Truthy(env.project_id)

CreatePayloads ==
    {Invalid, List(<< >>), Dict(<< >>), Dict([input |-> NoneV]),
     Dict([input |-> Dict([description |-> Str(<< >>)])]),
     Dict([input |-> Dict([description |-> Str(TxtHelp)])]),
     Dict([input |-> Dict([description |-> Str(TxtHelp),
                           location |-> Dict([lat |-> Num, lon |-> Num])])]),
     Dict([input |-> Dict([description |-> Str(TxtHelp),
                           location |-> Dict([lat |-> Str(TxtDot)])])])}

RoutePayloads ==
    {Invalid, List(<< >>), Dict(<< >>), Dict([user_input |-> NoneV]),
     Dict([user_input |-> Str(<< >>)]), Dict([user_input |-> Str(<<" ">>)]),
     Dict([user_input |-> Num]),
     Dict([user_input |-> Str(TxtHelp)]), Dict([user_input |-> Str(TxtBedriddenCat)])}

EndpointRequests ==
    [endpoint : {"create"}, payload : CreatePayloads]
    \cup [endpoint : {"route"}, payload : RoutePayloads]
    \cup [endpoint : {"get", "other"}, payload : {NoneV}]

\* _create_routing_entry, "1. Prepare Inputs": the description, or the
\* exception the getters and the float formatting raise outside any try.
PrepareInputs(payload) ==
    IF payload.t # "dict" THEN [raised |-> TRUE, description |-> NoneV]
    ELSE LET input == DictGetOr(payload, "input", Dict(<< >>))
         IN  IF input.t # "dict" THEN [raised |-> TRUE, description |-> NoneV]
             ELSE LET location == DictGetOr(input, "location", Dict(<< >>))
                  IN  IF location.t # "dict"
                         \/ DictGetOr(location, "lat", Num).t # "num"
                         \/ DictGetOr(location, "lon", Num).t # "num"
                      THEN [raised |-> TRUE, description |-> NoneV]
                      ELSE [raised |-> FALSE,
                            description |-> DictGetOr(input, "description", Str(<< >>))]

\* send_error(code, message)
SendError(code, message) == [http |-> code, body |-> [error |-> message]]

\* An exception nothing catches: the handler sends no response.
Uncaught == [http |-> 0, body |-> [error |-> "Uncaught"]]

\* comp.get('choices', [{}])[0].get('message', {}).get('content', '')
\*   or comp.get('choices', [{}])[0].get('text', '')
CompletionText(comp) ==
    LET choice == IF Truthy(DictGetOr(comp, "choices", List(<<Dict(<< >>)>>)))
                  THEN DictGetOr(comp, "choices", List(<<Dict(<< >>)>>)).q[1]
                  ELSE Dict(<< >>)
        content == DictGetOr(DictGetOr(choice, "message", Dict(<< >>)), "content", Str(<< >>))
    IN  IF Truthy(content) THEN content ELSE DictGetOr(choice, "text", Str(<< >>))

\* A completion column as the remote answers it.
MessageColumn(text) == Dict([choices |-> List(<<Dict([message |-> Dict([content |-> Str(text)])])>>)])
TextColumn(text) == Dict([choices |-> List(<<Dict([text |-> Str(text)])>>)])

\* Replies of the add-rows POST of the create handler that come with an
\* inserted row: 200 with the generated columns, 200 without rows, 200
\* with a body that is not JSON.
CreateInsertedReplies ==
    {[raised |-> FALSE, status |-> 200, json |-> Dict([rows |-> List(<<Dict([columns |-> Dict(
          [decoded_tags |-> TextColumn(TxtTags), route_analysis |-> MessageColumn(a)])])>>)])] :
        a \in {TxtAnalysisKolej, TxtAnalysisNoMarker, << >>}}
    \cup {[raised |-> FALSE, status |-> 200, json |-> Dict([rows |-> List(<< >>)])],
          [raised |-> FALSE, status |-> 200, json |-> Invalid]}

\* Replies without an inserted row: connection error, refusal, failure.
RefusedReplies ==
    {[raised |-> TRUE, status |-> 0, json |-> NoneV],
     [raised |-> FALSE, status |-> 401, json |-> Dict(<< >>)],
     [raised |-> FALSE, status |-> 500, json |-> Invalid]}

\* The 200 branch of _create_routing_entry: the 200 status line is sent,
\* then the body is parsed; an exception of the parsing or the extraction
\* is caught and answered with a second, 500 response.
CreateOutput(json) ==
    IF json = Invalid THEN [raised |-> TRUE, output |-> << >>]
    ELSE LET rows == DictGetOr(json, "rows", List(<< >>))
         IN  IF ~Truthy(rows) THEN [raised |-> FALSE, output |-> << >>]
             ELSE LET cols == DictGetOr(rows.q[1], "columns", Dict(<< >>))
                      decoded_tags_text == CompletionText(DictGetOr(cols, "decoded_tags", Dict(<< >>)))
                      analysis_text == CompletionText(DictGetOr(cols, "route_analysis", Dict(<< >>)))
                      extraction == CreateBestMatch(analysis_text.s)
                  IN  IF extraction.raised THEN [raised |-> TRUE, output |-> << >>]
                      ELSE [raised |-> FALSE,
                            output |->
                               [decoded_tags |-> decoded_tags_text,
                                analysis_text |->
                                   IF analysis_text.s = << >> THEN analysis_text
                                   ELSE Str(Strip(RemoveAll(analysis_text.s,
                                              MarkerLines(analysis_text.s)[Len(MarkerLines(analysis_text.s))]),
                                              Whitespace)),
                                selected_pps |-> extraction.best]]

\* "3. Call JamAI" of _create_routing_entry, given the reply of the POST.
\* requests' exceptions are IOError, that is EnvironmentError, and get the
\* answer of that handler.
CreateResponse(reply) ==
    IF reply.raised THEN SendError(500, "Configuration Error")
    ELSE IF reply.status = 200
         THEN [http |-> 200,
               body |-> [jamai_status |-> "success",
                         output |-> CreateOutput(reply.json).output,
                         then |-> IF CreateOutput(reply.json).raised
                                  THEN "Server Error" ELSE "none"]]
         ELSE SendError(reply.status, "JamAI API Error")

\* /api/route: `(payload.get("user_input") or "").strip()`
RouteUserInput(payload) ==
    IF payload.t # "dict" THEN [raised |-> TRUE, v |-> << >>]
    ELSE LET u == DictGet(payload, "user_input")
         IN  IF ~Truthy(u) THEN [raised |-> FALSE, v |-> << >>]
             ELSE IF u.t # "str" THEN [raised |-> TRUE, v |-> << >>]
             ELSE [raised |-> FALSE, v |-> Strip(u.s, Whitespace)]

\* Completions add_table_rows returns to /api/route for an inserted row:
\* rows[0].columns with or without the generated cells, or no rows.
RouteCompletions ==
    {Obj([rows |-> List(<<Obj([columns |-> Dict(
          [route_analysis |-> Obj([text |-> Str(a)]),
           decoded_tags |-> Obj([text |-> Str(TxtTags)])])])>>)]) :
        a \in {TxtAnalysisOku, TxtAnalysisNoMarker}}
    \cup {Obj([rows |-> List(<<Obj([columns |-> Dict(<< >>)])>>)]),
          Obj([rows |-> List(<< >>)])}

\* The markers of route(): pattern checks on the lower-cased texts.
RouteMarkers(route_analysis, decoded_tags) ==
    LET lower == Lower(route_analysis) \o <<" ">> \o Lower(decoded_tags)
        has(tok) == Contains(tok, lower)
    IN  <<[name |-> TxtGombak, distance |-> 1,
           suitability |-> IF has(TokStairs) \/ has(Tok2ndFloor) \/ has(TokBedridden)
                           THEN "Not Suitable" ELSE "Unknown"],
          [name |-> TxtDewan, distance |-> 2,
           suitability |-> IF has(TokNoAnimals) \/ has(TokStrictNoAnimals) \/ has(TokPetPolicy)
                           THEN "Not Suitable" ELSE "Unknown"],
          [name |-> TxtKolejKomuniti, distance |-> 4,
           suitability |-> IF has(TokOku) \/ has(TokOutdoorPetArea) \/ has(TokDesignatedPet)
                           THEN "Best Match" ELSE "Unknown"]>>

\* _fallback_route_logic: the decisions, and the analysis text as the lines
\* it is joined from (the three PPS lines are fixed text).
FallbackRouteLogic(input_text) ==
    LET has_bedridden == Contains(TokBedridden, Lower(input_text))
                            \/ Contains(TokWargaEmas, Lower(input_text))
        has_cat == Contains(TokCat, Lower(input_text))
        decisions ==
            <<[name |-> TxtGombak, distance |-> 1,
               suitability |-> IF has_bedridden THEN "Not Suitable" ELSE "Unknown"],
              [name |-> TxtDewan, distance |-> 2,
               suitability |-> IF has_cat THEN "Not Suitable" ELSE "Unknown"],
              [name |-> TxtKolejKomuniti, distance |-> 4, suitability |-> "Best Match"]>>
    IN  [route_analysis |->
            [input |-> input_text,
             gombak |-> "Rejection", dewan |-> "Rejection", kolej |-> "Selection",
             recommendation |-> TxtKolejKomuniti],
         markers |-> decisions]

\* Mutant of RouteResponse: only the add-rows call is inside the try, the
\* reading of the completion is not.
RouteResponse_ParseUncaught(input_text, add) ==
    IF add.raised
    THEN [http |-> 200, body |-> FallbackRouteLogic(input_text)]
    ELSE IF ~Truthy(add.v.f["rows"])
    THEN SendError(500, "Internal Server Error")
    ELSE LET row == add.v.f["rows"].q[1].f["columns"]
             route_analysis == IF "route_analysis" \in DOMAIN row.f
                               THEN row.f["route_analysis"].f["text"].s ELSE << >>
             decoded_tags == IF "decoded_tags" \in DOMAIN row.f
                             THEN row.f["decoded_tags"].f["text"].s ELSE << >>
         IN  [http |-> 200,
              body |-> [route_analysis |-> Str(route_analysis),
                        decoded_tags |-> Str(decoded_tags),
                        markers |-> RouteMarkers(route_analysis, decoded_tags)]]

\* The try block of route(), given what add_table_rows did.
RouteResponse(input_text, add) ==
    IF add.raised \/ ~Truthy(add.v.f["rows"])
    THEN [http |-> 200, body |-> FallbackRouteLogic(input_text)]
    ELSE LET row == add.v.f["rows"].q[1].f["columns"]
             route_analysis == IF "route_analysis" \in DOMAIN row.f
                               THEN row.f["route_analysis"].f["text"].s ELSE << >>
             decoded_tags == IF "decoded_tags" \in DOMAIN row.f
                             THEN row.f["decoded_tags"].f["text"].s ELSE << >>
         IN  [http |-> 200,
              body |-> [route_analysis |-> Str(route_analysis),
                        decoded_tags |-> Str(decoded_tags),
                        markers |-> RouteMarkers(route_analysis, decoded_tags)]]

EndpointInit ==
    /\ table = << >>
    /\ \E env \in Environments :
          req = [phase |-> "idle", env |-> env, data |-> [endpoint |-> "other", payload |-> NoneV]]
    /\ resp = NoResponse
    /\ remote = NoCall
    /\ calls = NoCalls

\* A request arrives at one of the endpoints.
Arrive(r) ==
    /\ req.phase = "idle"
    /\ req' = [req EXCEPT !.phase = "inflight", !.data = r]
    /\ resp' = NoResponse
    /\ remote' = NoCall
    /\ calls' = NoCalls
    /\ UNCHANGED table

\* do_POST / do_GET on another path: 404.
NotFound ==
    /\ req.phase = "inflight"
    /\ req.data.endpoint = "other"
    /\ resp' = SendError(404, "Not Found")
    /\ req' = [req EXCEPT !.phase = "idle"]
    /\ UNCHANGED <<table, remote, calls>>

\* Mutant of CreateRoutingEntry: the headers are built without the test of
\* the credentials, as in the earlier src/api/jamai.py.
CreateRoutingEntry_NoCredentialCheck ==
    /\ req.phase = "inflight"
    /\ req.data.endpoint = "create"
    /\ req' = [req EXCEPT !.phase = "idle"]
    /\ IF req.data.payload = Invalid
       THEN /\ resp' = SendError(400, "Invalid JSON payload")
            /\ UNCHANGED <<table, remote, calls>>
       ELSE IF PrepareInputs(req.data.payload).raised
       THEN /\ resp' = Uncaught
            /\ UNCHANGED <<table, remote, calls>>
       ELSE \E inserted \in {b \in BOOLEAN : b => Len(table) < MaxRows} :
            \E reply \in IF inserted THEN CreateInsertedReplies ELSE RefusedReplies :
               /\ table' = IF inserted
                           THEN Append(table, NewRow(PrepareInputs(req.data.payload).description))
                           ELSE table
               /\ remote' = [op |-> "add", raised |-> reply.raised, v |-> reply]
               /\ calls' = [calls EXCEPT !.add = @ + 1]
               /\ resp' = CreateResponse(reply)

\* POST /api/jamai/create: _create_routing_entry.
CreateRoutingEntry ==
    /\ req.phase = "inflight"
    /\ req.data.endpoint = "create"
    /\ req' = [req EXCEPT !.phase = "idle"]
    /\ IF req.data.payload = Invalid
       THEN /\ resp' = SendError(400, "Invalid JSON payload")
            /\ UNCHANGED <<table, remote, calls>>
       ELSE IF PrepareInputs(req.data.payload).raised
       THEN /\ resp' = Uncaught
            /\ UNCHANGED <<table, remote, calls>>
       ELSE IF CredentialsMissing(req.env)
       THEN /\ resp' = SendError(500, "Configuration Error")
            /\ UNCHANGED <<table, remote, calls>>
       ELSE \E inserted \in {b \in BOOLEAN : b => Len(table) < MaxRows} :
            \E reply \in IF inserted THEN CreateInsertedReplies ELSE RefusedReplies :
               /\ table' = IF inserted
                           THEN Append(table, NewRow(PrepareInputs(req.data.payload).description))
                           ELSE table
               /\ remote' = [op |-> "add", raised |-> reply.raised, v |-> reply]
               /\ calls' = [calls EXCEPT !.add = @ + 1]
               /\ resp' = CreateResponse(reply)

\* GET /api/jamai/get: _get_latest_routing_entry; a 200 reply of the list
\* request is passed on as it came.
GetLatestRoutingEntry ==
    /\ req.phase = "inflight"
    /\ req.data.endpoint = "get"
    /\ req' = [req EXCEPT !.phase = "idle"]
    /\ IF CredentialsMissing(req.env)
       THEN /\ resp' = SendError(500, "Configuration Error")
            /\ UNCHANGED <<remote, calls>>
       ELSE \E reply \in {[raised |-> TRUE, status |-> 0], [raised |-> FALSE, status |-> 200],
                          [raised |-> FALSE, status |-> 401]} :
               /\ remote' = [op |-> "get", raised |-> reply.raised, v |-> reply]
               /\ calls' = [calls EXCEPT !.get = @ + 1]
               /\ resp' = IF reply.raised THEN SendError(500, "Configuration Error")
                          ELSE IF reply.status = 200
                          THEN [http |-> 200,
                                body |-> [content |-> IF table = << >> THEN << >>
                                                      ELSE <<table[Len(table)]>>]]
                          ELSE SendError(reply.status, "JamAI List API Error")
    /\ UNCHANGED table

\* POST /api/route: route().  get_json(force=True) answers 400 to a body
\* that is not JSON; an exception before the try block is a 500 of the
\* framework.
Route ==
    /\ req.phase = "inflight"
    /\ req.data.endpoint = "route"
    /\ req' = [req EXCEPT !.phase = "idle"]
    /\ IF req.data.payload = Invalid
       THEN /\ resp' = SendError(400, "Bad Request")
            /\ UNCHANGED <<table, remote, calls>>
       ELSE IF RouteUserInput(req.data.payload).raised
       THEN /\ resp' = SendError(500, "Internal Server Error")
            /\ UNCHANGED <<table, remote, calls>>
       ELSE \E inserted \in {b \in BOOLEAN : b => Len(table) < MaxRows} :
            \E add \in IF inserted THEN {Returned(c) : c \in RouteCompletions} ELSE {Raised} :
               /\ table' = IF inserted
                           THEN Append(table, NewRow(Str(RouteUserInput(req.data.payload).v)))
                           ELSE table
               /\ remote' = [op |-> "add", raised |-> add.raised, v |-> add.v]
               /\ calls' = [calls EXCEPT !.add = @ + 1]
               /\ resp' = RouteResponse(RouteUserInput(req.data.payload).v, add)

EndpointNext ==
    \/ \E r \in EndpointRequests : Arrive(r)
    \/ NotFound
    \/ CreateRoutingEntry
    \/ GetLatestRoutingEntry
    \/ Route

EndpointSpec == EndpointInit /\ [][EndpointNext]_vars

\* The last request was answered (or dropped by an uncaught exception).
Served == req.phase = "idle" /\ resp # NoResponse

\* The create request carried a JSON payload the handler could read its
\* inputs from.
ReadableCreate ==
    /\ req.data.endpoint = "create"
    /\ req.data.payload # Invalid
    /\ ~PrepareInputs(req.data.payload).raised

\* C16 (as claimed): with JAMAI_PAT or JAMAI_PROJECT_ID not configured, the
\* create and the get operation fail with 500 "Configuration Error" and
\* send no request to the remote service.
C16_ConfigurationError ==
    (Served /\ req.data.endpoint \in {"create", "get"} /\ CredentialsMissing(req.env))
        => /\ resp = SendError(500, "Configuration Error")
           /\ remote.op = "none" /\ calls = NoCalls

\* C16 (amended): with JAMAI_PAT or JAMAI_PROJECT_ID not configured, the
\* create and the get operation send no request to the remote service and
\* never answer 200: get, and create with a readable payload, fail with
\* 500 "Configuration Error"; create with a body that is not JSON fails
\* with 400; create whose inputs cannot be read ends with an uncaught
\* exception.
C16_NoRequestWithoutCredentials ==
    (Served /\ req.data.endpoint \in {"create", "get"} /\ CredentialsMissing(req.env))
        => /\ remote.op = "none" /\ calls = NoCalls
           /\ resp.http # 200
           /\ (req.data.endpoint = "get" \/ ReadableCreate)
                 => resp = SendError(500, "Configuration Error")
           /\ (req.data.endpoint = "create" /\ req.data.payload = Invalid)
                 => resp.http = 400
           /\ (req.data.endpoint = "create" /\ req.data.payload # Invalid /\ ~ReadableCreate)
                 => resp = Uncaught

\* C16 witness: a create with a description was answered with the
\* configuration error while JAMAI_PAT was not set.
C16_Witness ==
    /\ Served
    /\ req.data = [endpoint |-> "create",
                   payload |-> Dict([input |-> Dict([description |-> Str(TxtHelp)])])]
    /\ req.env.pat = NoneV
    /\ resp = SendError(500, "Configuration Error")
    /\ remote.op = "none"

\* The request is a submit whose user input (user_input of /api/route,
\* input.description of /api/jamai/create) is empty or missing.
EmptySubmit ==
    \/ /\ req.data.endpoint = "route"
       /\ req.data.payload # Invalid
       /\ ~RouteUserInput(req.data.payload).raised
       /\ RouteUserInput(req.data.payload).v = << >>
    \/ /\ ReadableCreate
       /\ ~CredentialsMissing(req.env)
       /\ ~Truthy(PrepareInputs(req.data.payload).description)

\* C20: /api/route and /api/jamai/create answer an empty or missing user
\* input with a 400-class error and add no row to the remote table for it.
\* Stated for a create handler whose credentials are configured, where the
\* configuration error plays no part.
C20_EmptyInputRejected ==
    (Served /\ EmptySubmit)
        => /\ resp.http >= 400 /\ resp.http < 500
           /\ calls.add = 0

\* The route_analysis text of the row the remote answered the add-rows POST
\* of the create handler with; '' when there is none.
CreatedAnalysisText ==
    IF remote.op = "add" /\ ~remote.raised /\ remote.v.status = 200
       /\ remote.v.json # Invalid /\ Truthy(DictGetOr(remote.v.json, "rows", List(<< >>)))
    THEN CompletionText(DictGetOr(
            DictGetOr(DictGetOr(remote.v.json, "rows", List(<< >>)).q[1], "columns", Dict(<< >>)),
            "route_analysis", Dict(<< >>))).s
    ELSE << >>

\* C26: when the remote answers the create operation 200 with a non-empty
\* route_analysis text that has no line starting with "BEST MATCH:", the
\* reply is the 200 success reply with an empty selected_pps, and no error
\* is sent.
C26_NoMarkerLeavesFacilityEmpty ==
    (/\ Served /\ req.data.endpoint = "create"
     /\ CreatedAnalysisText # << >>
     /\ ~HasMarkerLine(CreatedAnalysisText))
        => /\ resp.http = 200
           /\ resp.body.then = "none"
           /\ resp.body.output.selected_pps = Str(<< >>)

\* /api/route made its add-rows call and the call raised, or reading
\* completion.rows[0] of what it returned raised.
RouteRemoteFailed ==
    /\ Served /\ req.data.endpoint = "route"
    /\ req.data.payload.t = "dict"
    /\ remote.op = "add"
    /\ (remote.raised \/ ~Truthy(remote.v.f["rows"]))

\* C30: for a request with a JSON object body, whenever the remote add-rows
\* call or the reading of its response raises, /api/route answers 200 with
\* the route_analysis and markers of the local fallback, and nothing else.
C30_RouteFallsBack ==
    RouteRemoteFailed
        => /\ resp.http = 200
           /\ DOMAIN resp.body = {"route_analysis", "markers"}
           /\ resp.body = FallbackRouteLogic(RouteUserInput(req.data.payload).v)

\* The add-rows call returned a completion without rows for a request that
\* names a bedridden person, and the reply carries the fallback's markers.
C30_Witness ==
    /\ RouteRemoteFailed /\ ~remote.raised
    /\ req.data.payload = Dict([user_input |-> Str(TxtBedriddenCat)])
    /\ resp.http = 200
    /\ resp.body.markers[1].suitability = "Not Suitable"
    /\ resp.body.markers[3].suitability = "Best Match"

-----------------------------------------------------------------------------
(***************************************************************************)
(* A polling run (WaitForCompletion): the caller of /api/analyze polls one *)
(* job until the reply is complete, the attempt budget is used up, or the  *)
(* handler answers with an error.  Each attempt is one request handled by  *)
(* analyze_route (validation, then the poll mode).  In WaitSpec, req holds *)
(* the run (the job polled, the attempts made, the state of the run), resp *)
(* the reply of the last attempt and calls the fetches made by the run.    *)
(***************************************************************************)

\* The answers of get_table_row a run is made against: a failure, a reply
\* without a row, the row in two of its wire forms.
SampleFetchOutcomes(tbl, row_id) ==
    IF RowIndex(tbl, row_id) = 0
    THEN {Raised, Returned(NoneV)}
    ELSE {Raised} \cup
         {Returned(ResponseWire(tbl[RowIndex(tbl, row_id)], row_id.s, "dict", "dict", w)) :
             w \in {"flat", "nested"}}

\* The attempt budget of a run.
MaxAttempts == 3

\* The jobs a run can be started for: the row submitted earlier, a row the
\* remote does not hold, and a malformed (empty) job id.
JobIds == {Str(RowIdText(1)), Str(UnknownId), Str(<< >>)}

\* The state of the run after an attempt answered with reply, attempts
\* being the number of attempts made so far, this one included.
RunState(reply, attempts) ==
    IF reply.http >= 400 THEN "Errored"
    ELSE IF "status" \in DOMAIN reply.body /\ reply.body.status = "complete" THEN "Complete"
    ELSE IF attempts >= MaxAttempts THEN "TimedOut"
    ELSE "Pending"

WaitInit ==
    /\ table = <<NewRow(Str(TxtHelp))>>
    /\ req = [phase |-> "idle", data |-> NoData, attempts |-> 0, state |-> "Pending"]
    /\ resp = NoResponse
    /\ remote = NoCall
    /\ calls = NoCalls

\* WaitForCompletion(jobId, MaxAttempts, interval) is called.
WaitForCompletion(jobId) ==
    /\ req.phase = "idle"
    /\ req' = [phase |-> "inflight", attempts |-> 0, state |-> "Pending",
               data |-> Dict([user_input |-> NoneV, row_id |-> jobId])]
    /\ resp' = NoResponse
    /\ remote' = NoCall
    /\ calls' = NoCalls
    /\ UNCHANGED table

\* The end of an attempt: the run moves to the state the reply puts it in
\* and is over when that state is terminal.
AttemptEnds ==
    LET state == RunState(resp', req.attempts + 1)
    IN  req' = [req EXCEPT !.attempts = @ + 1, !.state = state,
                           !.phase = IF state = "Pending" THEN "inflight" ELSE "done"]

\* One attempt of a run that is still pending and within its budget: the
\* request analyze_route handles, rejected by the validation or answered
\* by the poll mode after one get_table_row.
Attempt ==
    /\ req.phase = "inflight"
    /\ req.state = "Pending"
    /\ req.attempts < MaxAttempts
    /\ IF ~Truthy(user_input) /\ ~Truthy(row_id_to_fetch)
       THEN /\ resp' = ValidationError
            /\ UNCHANGED <<remote, calls>>
       ELSE /\ \E fetch \in SampleFetchOutcomes(table, row_id_to_fetch) \cup {RaisedUnrecoverable} :
                  /\ remote' = [op |-> "get", raised |-> fetch.raised, v |-> fetch.v]
                  /\ resp' = PollResponse(row_id_to_fetch, fetch)
            /\ calls' = [calls EXCEPT !.get = @ + 1]
    /\ AttemptEnds
    /\ UNCHANGED table

\* The run returned its result to the caller.
RunReturns ==
    /\ req.phase = "done"
    /\ req' = [phase |-> "idle", data |-> NoData, attempts |-> 0, state |-> "Pending"]
    /\ resp' = NoResponse
    /\ remote' = NoCall
    /\ calls' = NoCalls
    /\ UNCHANGED table

WaitNext ==
    \/ \E jobId \in JobIds : WaitForCompletion(jobId)
    \/ Attempt
    \/ RunReturns
    \/ \E n \in 1..MaxRows, col \in DerivedColumns :
          \E text \in ColumnTexts(col) : RemoteFill(n, col, text)

\* A run that was started makes its next attempt (the wait between two
\* attempts is a fixed delay).
WaitSpec == WaitInit /\ [][WaitNext]_vars /\ WF_vars(Attempt)

\* The step that makes an attempt of the run.
AttemptStep == req.phase = "inflight" /\ req'.attempts = req.attempts + 1

\* The attempt made by the step met a transient fetch failure.
TransientFailure == remote'.op = "get" /\ remote'.raised /\ remote'.v = NoneV

-----------------------------------------------------------------------------
(***************************************************************************)
(* Two /api/analyze requests handled concurrently (one thread each).  The  *)
(* handler suspends at its remote call, so the steps of the two requests   *)
(* interleave there and the remote table changes in between.  In ConcSpec, *)
(* req.conn[i] is request i as Flask hands it to the handler, req.frame    *)
(* the local variables of the call of analyze_route, resp[i] the reply,    *)
(* remote[i] what the remote did for the call made for request i (the      *)
(* argument it got, the table it ran against, its answer) and calls[i]     *)
(* the remote calls made for request i.                                    *)
(***************************************************************************)

Handlers == {1, 2}

\* The frame that holds the local variables of the call of analyze_route
\* made for request i: every call has its own.
Local_Shared(i) == 1
Local(i) == i

ConcRequests ==
    {Dict([user_input |-> u, row_id |-> r]) :
        u \in {NoneV, Str(TxtHelp)},
        r \in {NoneV, Str(UnknownId)} \cup {Str(RowIdText(n)) : n \in 1..MaxRows}}

\* The answers of add_table_rows the two requests are run against.
ConcAddOutcomes(tbl) ==
    {Raised, Returned(Dict([rows |-> List(<< >>)]))} \cup
    (IF Len(tbl) < MaxRows
     THEN {Returned(Dict([rows |-> List(<<Dict([row_id |-> Str(RowIdText(Len(tbl) + 1))])>>)]))}
     ELSE {})

\* The remote inserted a row when it answered add.
Inserted(add) == ~add.raised /\ Truthy(DictGet(add.v, "rows"))

NoFrame == [user_input |-> NoneV, row_id |-> NoneV, result |-> Returned(NoneV)]
NoServe == [op |-> "none", arg |-> NoneV, seen |-> << >>, raised |-> FALSE, v |-> NoneV]

ConcInit ==
    /\ table = << >>
    /\ req = [conn |-> [i \in Handlers |-> [phase |-> "idle", data |-> NoData]],
              frame |-> [i \in Handlers |-> NoFrame]]
    /\ resp = [i \in Handlers |-> NoResponse]
    /\ remote = [i \in Handlers |-> NoServe]
    /\ calls = [i \in Handlers |-> NoCalls]

\* Request i arrives: data = request.json and the three data.get(...).
ConcReceive(i, d) ==
    /\ req.conn[i].phase = "idle"
    /\ req' = [conn |-> [req.conn EXCEPT ![i] = [phase |-> "inflight", data |-> d]],
               frame |-> [req.frame EXCEPT ![Local(i)] =
                             [user_input |-> DictGet(d, "user_input"),
                              row_id |-> DictGet(d, "row_id"),
                              result |-> Returned(NoneV)]]]
    /\ UNCHANGED <<table, resp, remote, calls>>

\* The validation fails: 400, no remote call.
ConcReject(i) ==
    /\ req.conn[i].phase = "inflight"
    /\ ~Truthy(req.frame[Local(i)].user_input) /\ ~Truthy(req.frame[Local(i)].row_id)
    /\ resp' = [resp EXCEPT ![i] = ValidationError]
    /\ req' = [req EXCEPT !.conn[i].phase = "done"]
    /\ UNCHANGED <<table, remote, calls>>

\* The remote call of request i: get_table_row(row_id_to_fetch) in poll
\* mode, add_table_rows(row_data) in submit mode.  The handler is suspended
\* until the answer is in its local variable.
ConcCall(i) ==
    LET frame == req.frame[Local(i)]
    IN  /\ req.conn[i].phase = "inflight"
        /\ Truthy(frame.user_input) \/ Truthy(frame.row_id)
        /\ IF Truthy(frame.row_id)
           THEN \E fetch \in SampleFetchOutcomes(table, frame.row_id) :
                   /\ remote' = [remote EXCEPT ![i] =
                                    [op |-> "get", arg |-> frame.row_id, seen |-> table,
                                     raised |-> fetch.raised, v |-> fetch.v]]
                   /\ req' = [req EXCEPT !.conn[i].phase = "called",
                                          !.frame[Local(i)].result = fetch]
                   /\ calls' = [calls EXCEPT ![i].get = @ + 1]
                   /\ UNCHANGED table
           ELSE \E add \in ConcAddOutcomes(table) :
                   /\ remote' = [remote EXCEPT ![i] =
                                    [op |-> "add", arg |-> frame.user_input, seen |-> table,
                                     raised |-> add.raised, v |-> add.v]]
                   /\ req' = [req EXCEPT !.conn[i].phase = "called",
                                          !.frame[Local(i)].result = add]
                   /\ calls' = [calls EXCEPT ![i].add = @ + 1]
                   /\ table' = IF Inserted(add)
                               THEN Append(table, NewRow(frame.user_input)) ELSE table
        /\ UNCHANGED resp

\* The rest of the handler after the remote call: the reply is computed
\* from the local variables.
ConcReply(i) ==
    LET frame == req.frame[Local(i)]
    IN  /\ req.conn[i].phase = "called"
        /\ resp' = [resp EXCEPT ![i] =
                        IF Truthy(frame.row_id)
                        THEN PollResponse(frame.row_id, frame.result)
                        ELSE SubmitResponse(frame.result)]
        /\ req' = [req EXCEPT !.conn[i].phase = "done"]
        /\ UNCHANGED <<table, remote, calls>>

\* The reply of request i is sent.
ConcReturn(i) ==
    /\ req.conn[i].phase = "done"
    /\ req' = [req EXCEPT !.conn[i] = [phase |-> "idle", data |-> NoData]]
    /\ resp' = [resp EXCEPT ![i] = NoResponse]
    /\ remote' = [remote EXCEPT ![i] = NoServe]
    /\ calls' = [calls EXCEPT ![i] = NoCalls]
    /\ UNCHANGED table

\* The remote finishes the two completions of row n: its derived columns
\* are populated.
RemoteCompletes(n) ==
    /\ n \in 1..Len(table)
    /\ table[n]["route_analysis"] = NoneV
    /\ table' = [table EXCEPT ![n] = [@ EXCEPT !["decoded_tags"] = Str(TxtTags),
                                               !["route_analysis"] = Str(TxtAnalysisKolej),
                                               !["selected_pps"] = Str(TxtKolej)]]
    /\ UNCHANGED <<req, resp, remote, calls>>

ConcNext ==
    \/ \E i \in Handlers : \E d \in ConcRequests : ConcReceive(i, d)
    \/ \E i \in Handlers : ConcReject(i)
    \/ \E i \in Handlers : ConcCall(i)
    \/ \E i \in Handlers : ConcReply(i)
    \/ \E i \in Handlers : ConcReturn(i)
    \/ \E n \in 1..MaxRows : RemoteCompletes(n)

ConcSpec == ConcInit /\ [][ConcNext]_vars

\* The reply analyze_route gives to request d when it is handled alone and
\* the remote answers its call with served.
AloneReply(d, served) ==
    LET answer == [raised |-> served.raised, v |-> served.v]
    IN  IF ~Truthy(DictGet(d, "user_input")) /\ ~Truthy(DictGet(d, "row_id"))
        THEN ValidationError
        ELSE IF Truthy(DictGet(d, "row_id"))
             THEN PollResponse(DictGet(d, "row_id"), answer)
             ELSE SubmitResponse(answer)

\* The remote call analyze_route makes for request d when it is handled
\* alone against the table seen, with its possible answers.
AloneCalls(d, seen) ==
    IF ~Truthy(DictGet(d, "user_input")) /\ ~Truthy(DictGet(d, "row_id"))
    THEN {NoServe}
    ELSE IF Truthy(DictGet(d, "row_id"))
         THEN {[op |-> "get", arg |-> DictGet(d, "row_id"), seen |-> seen,
                raised |-> f.raised, v |-> f.v] :
                  f \in SampleFetchOutcomes(seen, DictGet(d, "row_id"))}
         ELSE {[op |-> "add", arg |-> DictGet(d, "user_input"), seen |-> seen,
                raised |-> a.raised, v |-> a.v] : a \in ConcAddOutcomes(seen)}

-----------------------------------------------------------------------------
(***************************************************************************)
(* The command-line workflows: scripts/analyze_and_route,                  *)
(* run_full_emergency_workflow, scripts/emergency_routing_workflow,        *)
(* create_action_table_and_run and full_workflow_diagnostics.  Each main   *)
(* runs its steps one after the other; every step is one remote operation  *)
(* (table creation, a table write, an LLM call) and what main does with    *)
(* its answer.  In ScriptSpec, req holds the script, its environment, the  *)
(* step it is at and its local variables tags and best; calls the remote   *)
(* operations made so far, in order, with what they carried and how they   *)
(* were answered; remote the last answer; table the rows the remote        *)
(* accepted; resp the exit status of the process.                          *)
(***************************************************************************)

TxtOkuCat == <<"O", "K", "U", ",", " ", "c", "a", "t">>
TxtOku == <<"O", "K", "U">>
TxtDecodingFailed == <<"D", "e", "c", "o", "d", "i", "n", "g", " ", "F", "a", "i", "l", "e", "d">>
TxtMarkerOnly == MarkerPrefix \o <<" ">>
TxtEarlierThenEmpty == TxtEarlierMatch \o MarkerPrefix

Scripts == {"analyze_and_route", "run_full_emergency_workflow",
            "emergency_routing_workflow", "create_action_table_and_run",
            "full_workflow_diagnostics"}

\* The scripts that create the action table first.
TableScripts == {"create_action_table_and_run", "full_workflow_diagnostics"}

\* The steps of main, in program order.
Program_RouteFirst(script) ==
    CASE script = "analyze_and_route" -> <<"route", "decode">>
      [] script = "run_full_emergency_workflow" ->
            <<"upload_sop", "route", "decode", "log_results">>
      [] script = "emergency_routing_workflow" ->
            <<"route", "post_decode_row", "decode", "post_route_row">>
      [] OTHER -> <<"create_table", "upload_sop", "route", "decode", "log_results">>

Program(script) ==
    CASE script = "analyze_and_route" -> <<"decode", "route">>
      [] script = "run_full_emergency_workflow" ->
            <<"upload_sop", "decode", "route", "log_results">>
      [] script = "emergency_routing_workflow" ->
            <<"decode", "post_decode_row", "route", "post_route_row">>
      [] OTHER -> <<"create_table", "upload_sop", "decode", "route", "log_results">>

\* The step that follows step in main, "finish" after the last one.
StepAfter(script, step) ==
    LET prog == Program(script)
        i == CHOOSE k \in 1..Len(prog) : prog[k] = step
    IN  IF i = Len(prog) THEN "finish" ELSE prog[i + 1]

\* The body of an LLM answer that carries text:
\* {"candidates": [{"content": {"parts": [{"text": text}]}}]}
LlmBody(text) ==
    Dict([candidates |-> List(<<Dict([content |->
            Dict([parts |-> List(<<Dict([text |-> text])>>)])])>>)])

\* result.get('candidates', [{}])[0].get('content', {}).get('parts', [{}])[0].get('text', '')
\* of a dict: the text, or an exception when a level has another shape.
LlmText(result) ==
    LET cands == DictGetOr(result, "candidates", List(<<Dict(<< >>)>>))
    IN  IF cands.t # "list" \/ cands.q = << >> \/ cands.q[1].t # "dict" THEN Raised
        ELSE LET content == DictGetOr(cands.q[1], "content", Dict(<< >>))
             IN  IF content.t # "dict" THEN Raised
                 ELSE LET parts == DictGetOr(content, "parts", List(<<Dict(<< >>)>>))
                      IN  IF parts.t # "list" \/ parts.q = << >> \/ parts.q[1].t # "dict"
                          THEN Raised
                          ELSE Returned(DictGetOr(parts.q[1], "text", Str(<< >>)))

\* str.split(',')
RECURSIVE SplitComma(_)
SplitComma(s) ==
    LET i == Find(<<",">>, s)
    IN  IF i = 0 THEN <<s>>
        ELSE <<SubSeq(s, 1, i - 1)>> \o SplitComma(SubSeq(s, i + 1, Len(s)))

\* [t.strip() for t in decoded_text.split(',') if t.strip()]
SplitTags(decoded_text) ==
    LET pieces == SplitComma(decoded_text)
        stripped == [i \in 1..Len(pieces) |-> Strip(pieces[i], Whitespace)]
    IN  SelectSeq(stripped, LAMBDA t : t # << >>)

\* `status and 200 <= status < 300`
StatusOk(reply) == ~reply.none /\ 200 =< reply.code /\ reply.code < 300

\* The text an LLM stage reads from the answer: scripts that go through
\* call_jamai_api read it from a 2xx JSON object only and take '' else;
\* the others read every JSON object, and analyze_and_route and
\* emergency_routing_workflow take str(result) of any other body.  A
\* network error is caught by call_jamai_api only.
StageText(script, reply) ==
    IF script \in TableScripts
    THEN IF StatusOk(reply) /\ reply.body.t = "dict"
         THEN LlmText(reply.body) ELSE Returned(Str(<< >>))
    ELSE IF reply.none THEN Raised
    ELSE IF reply.body.t = "dict" THEN LlmText(reply.body)
    ELSE IF script = "run_full_emergency_workflow" THEN Returned(Str(<< >>))
    ELSE Returned(reply.body)

\* decode_vulnerabilities: the tags, or an exception (from the call, from
\* reading the answer, or from split on a text that is None).
DecodeTags(script, reply) ==
    LET text == StageText(script, reply)
    IN  IF text.raised \/ text.v.t # "str" THEN [raised |-> TRUE, tags |-> << >>]
        ELSE IF script \in TableScripts /\ SplitTags(text.v.s) = << >>
             THEN [raised |-> FALSE, tags |-> <<TxtDecodingFailed>>]
             ELSE [raised |-> FALSE, tags |-> SplitTags(text.v.s)]

\* route_optimal_pps: best and full_text, or an exception.
RouteBest(script, reply) ==
    LET text == StageText(script, reply)
    IN  IF script \in TableScripts /\ ~(StatusOk(reply) /\ reply.body.t = "dict")
        THEN [raised |-> FALSE, best |-> NoneV, full_text |-> Str(<< >>)]
        ELSE IF text.raised \/ text.v.t # "str"
             THEN [raised |-> TRUE, best |-> NoneV, full_text |-> NoneV]
             ELSE [raised |-> FALSE, best |-> ParseBestMatch(text.v.s), full_text |-> text.v]

\* What the LLM endpoint can answer to the decode and to the route call.
LlmAnswers(texts) ==
    {[none |-> TRUE, code |-> 0, body |-> NoneV]}
    \cup [none : {FALSE}, code : {200},
          body : {LlmBody(Str(t)) : t \in texts}
                 \cup {LlmBody(NoneV), Dict(<< >>), Dict([candidates |-> List(<< >>)])}
                 \cup {Str(t) : t \in texts}]
    \cup [none : {FALSE}, code : {500}, body : {LlmBody(Str(t)) : t \in texts}]

DecodeAnswers == LlmAnswers({TxtOkuCat, << >>})
RouteAnswers == LlmAnswers({TxtAnalysisKolej, TxtAnalysisNoMarker, TxtMarkerOnly,
                            TxtEarlierThenEmpty})

\* What the management API can answer to the table creation.
CreateAnswers ==
    {[none |-> TRUE, code |-> 0, body |-> NoneV]}
    \cup [none : {FALSE}, code : {200, 201, 409, 401, 500}, body : {Dict(<< >>)}]

\* create_action_table_if_not_exists / create_emergency_routing_table: the
\* workflow goes on (the function returns True).
TableReady_IgnoreFailure(script, reply) == TRUE
TableReady(script, reply) == ~reply.none /\ reply.code \in {200, 201, 409}

\* How a table write ends: a row accepted, every endpoint failing, or the
\* failure line raising on `body[:100]` (the scripts that print it).
WriteOutcomes(script) ==
    {"posted", "failed"}
    \cup (IF script \in {"run_full_emergency_workflow", "create_action_table_and_run"}
          THEN {"raised"} ELSE {})

\* get_config and the checks of main: the variables main insists on are
\* set, or one of them is missing.
ScriptConfigs == [script : Scripts, env : {"set", "missing"}]

ExitStatus(code) == [http |-> 0, body |-> [exit |-> code]]
\* An exception nothing catches: the traceback is printed, exit status 1.
Crashed == [http |-> 0, body |-> [exit |-> 1, traceback |-> TRUE]]

ScriptInit ==
    /\ table = << >>
    /\ \E c \in ScriptConfigs :
          req = [phase |-> "start", data |-> c, tags |-> << >>, best |-> NoneV]
    /\ resp = NoOutcome
    /\ remote = NoCall
    /\ calls = << >>

\* One remote operation made by the step op, with what it carried.
Made(op, reply, tags) == [op |-> op, reply |-> reply, tags |-> tags]

\* main: get_config and the check of the environment (sys.exit(2)).
Start ==
    /\ req.phase = "start"
    /\ IF req.data.env = "missing"
       THEN /\ req' = [req EXCEPT !.phase = "done"]
            /\ resp' = ExitStatus(2)
       ELSE /\ req' = [req EXCEPT !.phase = Program(req.data.script)[1]]
            /\ resp' = resp
    /\ UNCHANGED <<table, remote, calls>>

\* The table creation and the test main makes on its result (sys.exit(1)).
CreateTable ==
    /\ req.phase = "create_table"
    /\ \E reply \in CreateAnswers :
          /\ calls' = Append(calls, Made("create_table", reply, << >>))
          /\ remote' = [op |-> "create_table", raised |-> reply.none, v |-> reply]
          /\ IF TableReady(req.data.script, reply)
             THEN /\ req' = [req EXCEPT !.phase = StepAfter(req.data.script, "create_table")]
                  /\ resp' = resp
             ELSE /\ req' = [req EXCEPT !.phase = "done"]
                  /\ resp' = ExitStatus(1)
    /\ UNCHANGED table

\* A table write (SOP upload, decode row, route row, workflow results):
\* main goes on whether the row was accepted or not.
WriteRows ==
    /\ req.phase \in {"upload_sop", "post_decode_row", "post_route_row", "log_results"}
    /\ \E outcome \in WriteOutcomes(req.data.script) :
          /\ calls' = Append(calls, Made(req.phase, outcome, req.tags))
          /\ remote' = [op |-> req.phase, raised |-> outcome = "raised", v |-> NoneV]
          /\ table' = IF outcome = "posted" THEN Append(table, req.phase) ELSE table
          /\ IF outcome = "raised"
             THEN /\ req' = [req EXCEPT !.phase = "done"]
                  /\ resp' = Crashed
             ELSE /\ req' = [req EXCEPT !.phase = StepAfter(req.data.script, req.phase)]
                  /\ resp' = resp

\* decode_vulnerabilities(api_url, pat, args.text)
decode_vulnerabilities ==
    /\ req.phase = "decode"
    /\ \E reply \in DecodeAnswers :
          LET decoded == DecodeTags(req.data.script, reply)
          IN  /\ calls' = Append(calls, Made("decode", reply, << >>))
              /\ remote' = [op |-> "decode", raised |-> reply.none, v |-> reply]
              /\ IF decoded.raised
                 THEN /\ req' = [req EXCEPT !.phase = "done"]
                      /\ resp' = Crashed
                 ELSE /\ req' = [req EXCEPT !.phase = StepAfter(req.data.script, "decode"),
                                            !.tags = decoded.tags]
                      /\ resp' = resp
    /\ UNCHANGED table

\* route_optimal_pps(api_url, pat, tags, args.location): the prompt carries
\* '; '.join(tags).
route_optimal_pps ==
    /\ req.phase = "route"
    /\ \E reply \in RouteAnswers :
          LET routed == RouteBest(req.data.script, reply)
          IN  /\ calls' = Append(calls, Made("route", reply, req.tags))
              /\ remote' = [op |-> "route", raised |-> reply.none, v |-> reply]
              /\ IF routed.raised
                 THEN /\ req' = [req EXCEPT !.phase = "done"]
                      /\ resp' = Crashed
                 ELSE /\ req' = [req EXCEPT !.phase = StepAfter(req.data.script, "route"),
                                            !.best = routed.best]
                      /\ resp' = resp
    /\ UNCHANGED table

\* The end of main: analyze_and_route exits with `0 if best else 1`, the
\* others return.
Finish ==
    /\ req.phase = "finish"
    /\ req' = [req EXCEPT !.phase = "done"]
    /\ resp' = IF req.data.script = "analyze_and_route" /\ ~Truthy(req.best)
               THEN ExitStatus(1) ELSE ExitStatus(0)
    /\ UNCHANGED <<table, remote, calls>>

ScriptNext == Start \/ CreateTable \/ WriteRows \/ decode_vulnerabilities \/ route_optimal_pps \/ Finish

ScriptSpec == ScriptInit /\ [][ScriptNext]_vars

\* The script ran to its exit.
Exited == req.phase = "done"

\* The operations of kind op made so far.
MadeOps(op) == SelectSeq(calls, LAMBDA c : c.op = op)

\* The routing text analyze_and_route got: the text of the answer to the
\* route call as the script reads it; none when the call was not made or
\* no text could be read.
RoutingText ==
    IF MadeOps("route") = << >> THEN NoneV
    ELSE LET text == StageText(req.data.script, MadeOps("route")[1].reply)
         IN  IF text.raised \/ text.v.t # "str" THEN NoneV ELSE text.v

\* The names that follow the marker on the BEST MATCH: lines of text.
MarkerNames(text) ==
    {Strip(AfterFirstColon(MatchingLines(text)[i]), Whitespace) :
        i \in 1..Len(MatchingLines(text))}

AnalyzeRan ==
    Exited /\ req.data.script = "analyze_and_route" /\ req.data.env = "set"

\* C25 (as claimed): analyze_and_route exits with 0 exactly when the routing
\* text has a BEST MATCH: line with a non-empty name, and with 1 otherwise.
C25_ExitZeroIffMarkerLine ==
    AnalyzeRan
        => /\ resp.body.exit \in {0, 1}
           /\ resp.body.exit = 0
                <=> (RoutingText # NoneV
                     /\ \E name \in MarkerNames(RoutingText.s) : name # << >>)

\* C25 (amended): analyze_and_route exits with 0 exactly when both LLM
\* calls were answered with a readable text and the last BEST MATCH: line
\* of the routing text has a non-empty name, and with 1 otherwise (also
\* when an earlier marker line has a name, and when a call or the reading
\* of its answer raises).
C25_ExitZeroIffLastMarkerLine ==
    AnalyzeRan
        => /\ resp.body.exit \in {0, 1}
           /\ resp.body.exit = 0
                <=> (/\ RoutingText # NoneV
                     /\ MatchingLines(RoutingText.s) # << >>
                     /\ Strip(AfterFirstColon(
                            MatchingLines(RoutingText.s)[Len(MatchingLines(RoutingText.s))]),
                            Whitespace) # << >>)

\* C25 witness: analyze_and_route exited with 1 on a routing text whose
\* last marker line has no name while an earlier one has.
C25_Witness ==
    /\ AnalyzeRan
    /\ RoutingText = Str(TxtEarlierThenEmpty)
    /\ resp = ExitStatus(1)


\* The steps that write result rows to the table.
ResultWrites == {"post_decode_row", "post_route_row", "log_results"}

\* The operation calls[i] was made after an operation of kind op returned.
MadeAfter(op, i) == \E j \in 1..(i - 1) : calls[j].op = op

\* The route call calls[i] came after a decode call that returned, and
\* carries exactly the tags that decode returned.
RouteFollowsDecode(i) ==
    \E j \in 1..(i - 1) :
        /\ calls[j].op = "decode"
        /\ ~DecodeTags(req.data.script, calls[j].reply).raised
        /\ calls[i].tags = DecodeTags(req.data.script, calls[j].reply).tags

\* C27 (as claimed): the route call is issued only after decode returned,
\* with exactly decode's tags, and every result row is written to the table
\* only after both the decode and the route call have returned.
C27_LoggedAfterBothCalls ==
    \A i \in 1..Len(calls) :
        /\ calls[i].op = "route" => RouteFollowsDecode(i)
        /\ calls[i].op \in ResultWrites => MadeAfter("decode", i) /\ MadeAfter("route", i)

\* C27 (amended): the route call is issued only after decode returned, with
\* exactly decode's tags; the decode row is written only after decode
\* returned, and the route row and the workflow results only after both
\* calls returned.
C27_LoggedAfterProducingCall ==
    \A i \in 1..Len(calls) :
        /\ calls[i].op = "route" => RouteFollowsDecode(i)
        /\ calls[i].op \in ResultWrites => MadeAfter("decode", i)
        /\ calls[i].op \in {"post_route_row", "log_results"} => MadeAfter("route", i)
        /\ calls[i].op = "post_decode_row" => ~MadeAfter("route", i)

\* emergency_routing_workflow ran to its end with tags decoded, having
\* written the decode row before the route call and the route row after it.
C27_Witness ==
    /\ Exited /\ req.data.script = "emergency_routing_workflow"
    /\ req.tags # << >>
    /\ Len(calls) = 4
    /\ calls[2].op = "post_decode_row" /\ calls[3].op = "route"
    /\ calls[4].op = "post_route_row"
    /\ calls[3].tags = req.tags


\* The table creation was made and nothing after it yet.
CreationJustAnswered ==
    /\ req.data.script \in TableScripts
    /\ Len(calls) = 1 /\ calls[1].op = "create_table"

\* C28: when the table creation is answered with a status other than 200,
\* 201 or 409, the workflow exits with status 1 and makes no SOP upload, no
\* LLM call and no result logging afterwards; answered with 409, it goes on
\* to the SOP upload.
C28_CreationFailureStops ==
    (req.data.script \in TableScripts /\ calls # << >> /\ ~calls[1].reply.none)
        => /\ calls[1].op = "create_table"
           /\ calls[1].reply.code \notin {200, 201, 409}
                => /\ Exited /\ resp = ExitStatus(1)
                   /\ Len(calls) = 1 /\ table = << >>
           /\ (calls[1].reply.code = 409 /\ Len(calls) = 1)
                => req.phase = "upload_sop" /\ resp = NoOutcome

\* A workflow whose table creation was answered 500 has exited, with the
\* creation as its only remote operation.
C28_Witness ==
    /\ CreationJustAnswered /\ Exited
    /\ ~calls[1].reply.none /\ calls[1].reply.code = 500
    /\ resp = ExitStatus(1)

\* C29: in create_action_table_and_run, when the management API cannot be
\* reached (no HTTP status), the table is assumed to exist and the workflow
\* goes on to the SOP upload.
C29_UnreachableAssumesTable ==
    (/\ CreationJustAnswered
     /\ req.data.script = "create_action_table_and_run"
     /\ calls[1].reply.none)
        => req.phase = "upload_sop" /\ resp = NoOutcome


-----------------------------------------------------------------------------
\* Further properties of the extraction (ExtractSpec)

\* The last marker line of text.
LastMarkerLine(text) == MarkerLines(text)[Len(MarkerLines(text))]

\* C31: when the analysis text has several BEST MATCH: lines, the facility
\* extracted by the create handler and by route_optimal_pps is the one
\* extracted from the last such line alone, and not the name of the earlier
\* line.
C31_LastMarkerLineDecides ==
    (/\ req.phase = "done" /\ "by" \in DOMAIN resp.body
     /\ resp.body.by \in {"create", "route"}
     /\ Len(MarkerLines(req.data.s)) >= 2)
        => /\ ~resp.body.raised
           /\ resp.body.selected_pps =
                 IF resp.body.by = "create"
                 THEN CreateBestMatch(LastMarkerLine(req.data.s)).best
                 ELSE ParseBestMatch(LastMarkerLine(req.data.s))
           /\ ~Contains(TxtGombak, resp.body.selected_pps.s)

\* The create handler extracted "Hall A" from a text whose earlier marker
\* line names SK Gombak.
C31_Witness ==
    /\ req.phase = "done" /\ "by" \in DOMAIN resp.body
    /\ resp.body.by = "create"
    /\ req.data.s = TxtEarlierMatch \o MarkerPrefix \o <<" ">> \o TxtHallA
    /\ resp.body.selected_pps = Str(TxtHallA)


-----------------------------------------------------------------------------
\* Further properties of the workflow scripts (ScriptSpec)

\* The decode call is the last remote operation made so far.
DecodeJustMade == calls # << >> /\ calls[Len(calls)].op = "decode"

\* C32: in create_action_table_and_run and full_workflow_diagnostics,
\* decode_vulnerabilities returns a non-empty tag list for every outcome of
\* the LLM call, the single tag 'Decoding Failed' when the answer is not a
\* 2xx JSON object, and the routing step is run next.
C32_DecodeAlwaysTagged ==
    (req.data.script \in TableScripts /\ DecodeJustMade)
        => /\ req.phase = "route"
           /\ req.tags # << >>
           /\ ~(StatusOk(calls[Len(calls)].reply) /\ calls[Len(calls)].reply.body.t = "dict")
                => req.tags = <<TxtDecodingFailed>>


-----------------------------------------------------------------------------
\* Further properties of the endpoints (EndpointSpec)

\* C33: a request to /api/jamai/create gets exactly one HTTP response: once
\* the 200 status line and the headers are sent, no later step (parsing the
\* remote body, extracting the BEST MATCH line) sends an error response.
C33_ExactlyOneResponse ==
    (Served /\ req.data.endpoint = "create" /\ resp.http = 200)
        => resp.body.then = "none"


\* /api/route answered with the body of the local fallback.
FallbackAnswered ==
    /\ Served /\ req.data.endpoint = "route"
    /\ resp.http = 200
    /\ DOMAIN resp.body = {"route_analysis", "markers"}

\* C34: the local fallback is self-consistent: its route_analysis reports
\* SK Gombak as rejected exactly when the SK Gombak marker is 'Not
\* Suitable', Dewan Serbaguna as rejected exactly when the Dewan Serbaguna
\* marker is 'Not Suitable', and its Recommendation line names the one
\* marker whose suitability is 'Best Match'.
C34_FallbackSelfConsistent ==
    FallbackAnswered
        => /\ resp.body.route_analysis.gombak = "Rejection"
                <=> resp.body.markers[1].suitability = "Not Suitable"
           /\ resp.body.route_analysis.dewan = "Rejection"
                <=> resp.body.markers[2].suitability = "Not Suitable"
           /\ \A i \in 1..Len(resp.body.markers) :
                resp.body.markers[i].suitability = "Best Match"
                    <=> resp.body.markers[i].name = resp.body.route_analysis.recommendation


-----------------------------------------------------------------------------
\* Further properties of the LLM stages of the scripts (ScriptSpec)

\* The last remote operation made is an LLM call that was answered with a
\* status outside 2xx.
LlmCallRefused ==
    /\ calls # << >>
    /\ calls[Len(calls)].op \in {"decode", "route"}
    /\ ~calls[Len(calls)].reply.none
    /\ ~StatusOk(calls[Len(calls)].reply)

\* C35: in every variant of decode_vulnerabilities and route_optimal_pps,
\* when the LLM call is answered with a non-2xx status the returned tag list
\* is empty or the failure sentinel and the returned best match is None,
\* whatever the error body contains.
C35_OnlyFromSuccessfulAnswers ==
    LlmCallRefused
        => /\ calls[Len(calls)].op = "decode"
                => req.tags \in {<< >>, <<TxtDecodingFailed>>}
           /\ calls[Len(calls)].op = "route" => req.best = NoneV


\* The scripts whose main ends with log_workflow_results.
LoggingScripts ==
    {script \in Scripts :
        \E i \in 1..Len(Program(script)) : Program(script)[i] = "log_results"}

\* The outcomes of a remote operation the statement is about: a table write
\* that was accepted or refused, and an LLM call that met a network error
\* or was answered, with any status, by a text or by a JSON object of the
\* documented shape.
OrdinaryOutcome(made) ==
    IF made.op \in {"decode", "route"}
    THEN \/ made.reply.none
         \/ made.reply.body.t = "str"
         \/ /\ made.reply.body.t = "dict"
            /\ ~LlmText(made.reply.body).raised
            /\ LlmText(made.reply.body).v.t = "str"
    ELSE IF made.op = "create_table" THEN TRUE
    ELSE made.reply \in {"posted", "failed"}

\* The configuration was accepted and, where the script creates the table,
\* the creation succeeded.
WorkflowUnderWay ==
    /\ req.data.env = "set"
    /\ req.data.script \in TableScripts
         => calls # << >> /\ TableReady(req.data.script, calls[1].reply)

\* C36: once the configuration is validated and the table created, every
\* run of a workflow script ends having made the decode call, the route
\* call and exactly one attempt to log the results, whatever the outcome of
\* the SOP upload, the decode call and the route call.
C36_ResultsLoggedOnce ==
    (/\ Exited /\ req.data.script \in LoggingScripts
     /\ WorkflowUnderWay
     /\ \A i \in 1..Len(calls) : OrdinaryOutcome(calls[i]))
        => /\ Len(MadeOps("log_results")) = 1
           /\ Len(MadeOps("decode")) = 1
           /\ Len(MadeOps("route")) = 1
           /\ calls[Len(calls)].op = "log_results"

====
